---- MODULE Spec2Model ----
(***************************************************************************)
(* A model of whispercat-rs: the text post-processing pipeline             *)
(* (src/whispercat-rs/src/pipeline/mod.rs).                                *)
(*                                                                         *)
(* A text (a Rust String) is a sequence of one-token strings; the          *)
(* placeholder "{{input}}" of a prompt template is one token.              *)
(***************************************************************************)
EXTENDS Integers, Sequences, FiniteSets, TLC

(***************************************************************************)
(* Bounds of the model.                                                    *)
(***************************************************************************)
\* longest unit list handed to the batch planner on its own
MaxPlanUnits == 4
\* most entries (inline units plus unit references) a pipeline is given
MaxUnits == 3
\* largest wall-clock reading of Instant::elapsed, in ticks
MaxElapsed == 1
MaxTextLen == 3
MaxFindLen == 2
MaxSamples == 6
MaxRefs == 2

(***************************************************************************)
(* Option<T>: None, or the value itself.                                   *)
(***************************************************************************)
None == "None"

(***************************************************************************)
(* Strings.                                                                *)
(***************************************************************************)
INPUT_PH == "{{input}}"

\* does pat occur in text at position i (1-based)
MatchAt(text, i, pat) ==
    /\ i + Len(pat) - 1 <= Len(text)
    /\ \A k \in 1..Len(pat) : text[i + k - 1] = pat[k]

\* str::replace(find, replace): every non-overlapping match, left to right;
\* the empty pattern matches at every boundary
RECURSIVE StrReplaceFrom(_, _, _, _)
StrReplaceFrom(text, i, find, repl) ==
    IF i > Len(text)
    THEN IF find = <<>> THEN repl ELSE <<>>
    ELSE IF MatchAt(text, i, find)
         THEN IF find = <<>>
              THEN repl \o <<text[i]>> \o StrReplaceFrom(text, i + 1, find, repl)
              ELSE repl \o StrReplaceFrom(text, i + Len(find), find, repl)
         ELSE <<text[i]>> \o StrReplaceFrom(text, i + 1, find, repl)

StrReplace(text, find, repl) == StrReplaceFrom(text, 1, find, repl)

(***************************************************************************)
(* The regex crate, as far as the pipeline uses it: a pattern is a         *)
(* sequence of literals, "." (any token), groups "(" ")" and "\" escapes.  *)
(* A compiled pattern is a sequence of [any, ch]; compilation fails on     *)
(* unbalanced parentheses and on a trailing backslash.                     *)
(***************************************************************************)
MetaChars == {".", "(", ")", "\\"}

\* a variant of RegexEscape that hands the string back as it is
RegexEscape_none(s) == s

\* regex::escape: a backslash before every metacharacter
RECURSIVE RegexEscape(_)
RegexEscape(s) ==
    IF s = <<>> THEN <<>>
    ELSE (IF Head(s) \in MetaChars THEN <<"\\", Head(s)>> ELSE <<Head(s)>>)
         \o RegexEscape(Tail(s))

\* ASCII case folding of one token
UpperCase ==
    <<"A", "B", "C", "D", "E", "F", "G", "H", "I", "J", "K", "L", "M",
      "N", "O", "P", "Q", "R", "S", "T", "U", "V", "W", "X", "Y", "Z">>

LowerCase ==
    <<"a", "b", "c", "d", "e", "f", "g", "h", "i", "j", "k", "l", "m",
      "n", "o", "p", "q", "r", "s", "t", "u", "v", "w", "x", "y", "z">>

Fold(c) ==
    IF \E i \in 1..Len(UpperCase) : UpperCase[i] = c
    THEN LowerCase[CHOOSE i \in 1..Len(UpperCase) : UpperCase[i] = c]
    ELSE c

RECURSIVE RegexParse(_, _, _, _)
RegexParse(pat, i, depth, acc) ==
    IF i > Len(pat)
    THEN IF depth = 0 THEN [ok |-> TRUE, elems |-> acc]
                      ELSE [ok |-> FALSE, elems |-> <<>>]
    ELSE CASE pat[i] = "\\" ->
                IF i = Len(pat)
                THEN [ok |-> FALSE, elems |-> <<>>]
                ELSE RegexParse(pat, i + 2, depth,
                                Append(acc, [any |-> FALSE, ch |-> pat[i + 1]]))
           [] pat[i] = "(" -> RegexParse(pat, i + 1, depth + 1, acc)
           [] pat[i] = ")" ->
                IF depth = 0
                THEN [ok |-> FALSE, elems |-> <<>>]
                ELSE RegexParse(pat, i + 1, depth - 1, acc)
           [] pat[i] = "." ->
                RegexParse(pat, i + 1, depth, Append(acc, [any |-> TRUE, ch |-> "."]))
           [] OTHER ->
                RegexParse(pat, i + 1, depth, Append(acc, [any |-> FALSE, ch |-> pat[i]]))

\* Regex::new / RegexBuilder::new(..).case_insensitive(ci).build()
RegexBuild(pat, ci) ==
    LET p == RegexParse(pat, 1, 0, <<>>)
    IN  [ok |-> p.ok, elems |-> p.elems, ci |-> ci]

RegexMatchAt(re, text, i) ==
    /\ i + Len(re.elems) - 1 <= Len(text)
    /\ \A k \in 1..Len(re.elems) :
          \/ re.elems[k].any
          \/ IF re.ci THEN Fold(text[i + k - 1]) = Fold(re.elems[k].ch)
                      ELSE text[i + k - 1] = re.elems[k].ch

\* Regex::replace_all with a replacement that holds no "$"
RECURSIVE RegexReplaceFrom(_, _, _, _)
RegexReplaceFrom(re, text, i, repl) ==
    IF i > Len(text)
    THEN IF re.elems = <<>> THEN repl ELSE <<>>
    ELSE IF RegexMatchAt(re, text, i)
         THEN IF re.elems = <<>>
              THEN repl \o <<text[i]>> \o RegexReplaceFrom(re, text, i + 1, repl)
              ELSE repl \o RegexReplaceFrom(re, text, i + Len(re.elems), repl)
         ELSE <<text[i]>> \o RegexReplaceFrom(re, text, i + 1, repl)

RegexReplaceAll(re, text, repl) == RegexReplaceFrom(re, text, 1, repl)

(***************************************************************************)
(* The unit model.  Unit is the inline (legacy) unit, ProcessingUnit the   *)
(* stored unit with its UnitType payload.  Timestamps are not modelled.    *)
(***************************************************************************)
OpenAI == "OpenAI"

PromptUnit(id, name, model, system_prompt, user_prompt_template) ==
    [type |-> "Prompt", id |-> id, name |-> name, provider |-> OpenAI,
     model |-> model, system_prompt |-> system_prompt,
     user_prompt_template |-> user_prompt_template]

TextReplacementUnit(id, name, find, replace, regex, case_sensitive) ==
    [type |-> "TextReplacement", id |-> id, name |-> name, find |-> find,
     replace |-> replace, regex |-> regex, case_sensitive |-> case_sensitive]

\* Unit::to_processing_unit
to_processing_unit(u) ==
    [id |-> u.id, name |-> u.name, description |-> None,
     unit_type |->
        IF u.type = "Prompt"
        THEN [type |-> "Prompt", provider |-> u.provider, model |-> u.model,
              system_prompt |-> u.system_prompt,
              user_prompt_template |-> u.user_prompt_template]
        ELSE [type |-> "TextReplacement", find |-> u.find, replace |-> u.replace,
              regex |-> u.regex, case_sensitive |-> u.case_sensitive]]

\* the units the model draws from: two prompts on one model, one on another,
\* a literal replacement and a replacement whose pattern does not compile
P1 == PromptUnit("u1", "P1", "gpt-4", <<"s1">>, <<INPUT_PH>>)
P2 == PromptUnit("u2", "P2", "gpt-4", <<"s2">>, <<"t", INPUT_PH>>)
P3 == PromptUnit("u3", "P3", "gpt-3.5", <<"s3">>, <<INPUT_PH, "u">>)
R1 == TextReplacementUnit("u4", "R1", <<"a">>, <<"b">>, FALSE, TRUE)
R2 == TextReplacementUnit("u5", "R2", <<"(">>, <<"b">>, TRUE, TRUE)

Catalog == {P1, P2, P3, R1, R2}

\* the unit store handed to execute_with_units, and ids no stored unit has
StoredUnits ==
    <<to_processing_unit(P1), to_processing_unit(P2), to_processing_unit(P3),
      to_processing_unit(R1), to_processing_unit(R2)>>

DanglingIds == {"u9"}

SeqsUpTo(S, n) == UNION {[1..k -> S] : k \in 0..n}

(***************************************************************************)
(* BatchPlanner: PipelineExecutor::create_batches.                         *)
(***************************************************************************)
UnitBatch(units, optimizable, provider, model) ==
    [units |-> units, optimizable |-> optimizable, provider |-> provider,
     model |-> model]

\* a variant of FinalizeLast that marks the last batch optimizable without its key
FinalizeLast_unkeyed(batches, current_batch, current_provider, current_model) ==
    IF current_batch # <<>>
    THEN Append(batches, UnitBatch(current_batch, TRUE, None, None))
    ELSE batches

\* the flush at the end of the scan
FinalizeLast(batches, current_batch, current_provider, current_model) ==
    IF current_batch # <<>>
    THEN Append(batches,
                UnitBatch(current_batch,
                          current_provider # None /\ current_model # None,
                          current_provider, current_model))
    ELSE batches

\* a variant of CloseBatch that forgets the batch it closes
CloseBatch_drop(batches, current_batch, current_provider, current_model) ==
    batches

\* a batch closed inside the scan
CloseBatch(batches, current_batch, current_provider, current_model) ==
    IF current_batch # <<>>
    THEN Append(batches,
                UnitBatch(current_batch, Len(current_batch) >= 2,
                          current_provider, current_model))
    ELSE batches

\* a variant of SameKey that compares the provider alone
SameKey_provider_only(unit, current_provider, current_model) ==
    unit.provider = current_provider

\* may a prompt join the open batch
SameKey(unit, current_provider, current_model) ==
    unit.provider = current_provider /\ unit.model = current_model

\* a variant of ReplacementBatch that marks the batch optimizable
ReplacementBatch_optimizable(unit) == UnitBatch(<<unit>>, TRUE, None, None)

\* the batch a TextReplacement unit is emitted as
ReplacementBatch(unit) == UnitBatch(<<unit>>, FALSE, None, None)

RECURSIVE CreateBatchesFrom(_, _, _, _, _, _)
CreateBatchesFrom(units, i, batches, current_batch, current_provider, current_model) ==
    IF i > Len(units)
    THEN FinalizeLast(batches, current_batch, current_provider, current_model)
    ELSE LET unit == units[i] IN
         IF unit.type = "Prompt"
         THEN IF current_provider # None /\ current_model # None
              THEN IF SameKey(unit, current_provider, current_model)
                   THEN CreateBatchesFrom(units, i + 1, batches,
                                          Append(current_batch, unit),
                                          current_provider, current_model)
                   ELSE CreateBatchesFrom(units, i + 1,
                                          CloseBatch(batches, current_batch,
                                                     current_provider, current_model),
                                          <<unit>>, unit.provider, unit.model)
              ELSE CreateBatchesFrom(units, i + 1, batches,
                                     Append(current_batch, unit),
                                     unit.provider, unit.model)
         ELSE IF current_batch # <<>>
              THEN CreateBatchesFrom(units, i + 1,
                                     Append(CloseBatch(batches, current_batch,
                                                       current_provider, current_model),
                                            ReplacementBatch(unit)),
                                     <<>>, None, None)
              ELSE CreateBatchesFrom(units, i + 1,
                                     Append(batches, ReplacementBatch(unit)),
                                     current_batch, current_provider, current_model)

create_batches(units) == CreateBatchesFrom(units, 1, <<>>, <<>>, None, None)

(***************************************************************************)
(* Errors (WhisperCatError) and what an error shows to the caller.         *)
(***************************************************************************)
ApiError(status, message) ==
    [variant |-> "ApiError", status |-> status, message |-> message]

HttpError(message) == [variant |-> "HttpError", message |-> message]

RegexError(pattern) == [variant |-> "RegexError", message |-> pattern]

\* the strings an error carries: its Display text, token by token
ErrorText(e) ==
    CASE e.variant = "ApiError" ->
            <<"Transcription API error: ", ToString(e.status), " - ">> \o e.message
      [] e.variant = "HttpError" -> <<"HTTP error: ">> \o e.message
      [] OTHER -> <<"Regex error: ">> \o e.message

(***************************************************************************)
(* The completion service: what one chat_completion call can return.       *)
(***************************************************************************)
Responses == {<<"x">>, <<"a", "y">>}

ServiceErrors ==
    {ApiError(429, <<"rate limited">>),
     ApiError(500, <<"No response from API">>),
     HttpError(<<"connection reset">>)}

Inputs == {<<"a", "b">>, <<"c">>}

(***************************************************************************)
(* PromptCompiler: PipelineExecutor::compile_chained_prompt.               *)
(***************************************************************************)
RECURSIVE Join(_, _)
Join(parts, sep) ==
    IF parts = <<>> THEN <<>>
    ELSE IF Len(parts) = 1 THEN parts[1]
    ELSE parts[1] \o <<sep>> \o Join(Tail(parts), sep)

\* the enumerate() index of each Prompt unit of the batch (0-based)
PromptIndexes(units) ==
    LET F[i \in 0..Len(units)] ==
            IF i = 0 THEN <<>>
            ELSE IF units[i].type = "Prompt" THEN Append(F[i - 1], i - 1)
                 ELSE F[i - 1]
    IN  F[Len(units)]

\* a variant of StepMarker that names the step itself
StepMarker_own(idx) == <<"{STEP_", ToString(idx + 1), "_OUTPUT}">>

StepMarker(idx) == <<"{STEP_", ToString(idx), "_OUTPUT}">>

SystemPart(idx, unit) ==
    <<"## Step ", ToString(idx + 1), ": ", unit.name, "\n">> \o unit.system_prompt

UserPart(idx, unit, input_text) ==
    <<"### Step ", ToString(idx + 1), ": ", unit.name, "\n">>
    \o (IF idx = 0
        THEN StrReplace(unit.user_prompt_template, <<INPUT_PH>>, input_text)
        ELSE StrReplace(unit.user_prompt_template, <<INPUT_PH>>, StepMarker(idx)))

compile_chained_prompt(input_text, batch) ==
    LET idxs == PromptIndexes(batch.units)
        system_parts == [k \in 1..Len(idxs) |->
                            SystemPart(idxs[k], batch.units[idxs[k] + 1])]
        user_parts == [k \in 1..Len(idxs) |->
                            UserPart(idxs[k], batch.units[idxs[k] + 1], input_text)]
    IN  [system_prompt |->
            <<"You are executing a chained processing pipeline. Process each step sequentially, using the output from each step as input to the next.", "\n\n">>
            \o Join(system_parts, "\n\n"),
         user_prompt |->
            <<"Execute the following steps in order:", "\n\n">>
            \o Join(user_parts, "\n\n")
            \o <<"\n\n", "Provide ONLY the final output from the last step.">>]

(***************************************************************************)
(* One unit: PipelineExecutor::execute_unit and execute_unit_type.  The    *)
(* outcome is the request of an external call, a new text, or an error.    *)
(***************************************************************************)
Request(system_prompt, user_prompt, model) ==
    [system_prompt |-> system_prompt, user_prompt |-> user_prompt, model |-> model]

StepCall(req) == [kind |-> "call", req |-> req]
StepOk(text) == [kind |-> "ok", text |-> text]
StepErr(e) == [kind |-> "err", error |-> e]

\* a variant of text_replacement that leaves the text alone when the pattern is malformed
text_replacement_lenient(input_text, find, replace, regex, case_sensitive) ==
    IF regex
    THEN LET re == RegexBuild(find, ~case_sensitive)
         IN  IF re.ok THEN StepOk(RegexReplaceAll(re, input_text, replace))
                      ELSE StepOk(input_text)
    ELSE IF case_sensitive
         THEN StepOk(StrReplace(input_text, find, replace))
         ELSE LET re == RegexBuild(RegexEscape(find), TRUE)
              IN  IF re.ok THEN StepOk(RegexReplaceAll(re, input_text, replace))
                           ELSE StepOk(input_text)

\* the TextReplacement arm, the same in both functions
text_replacement(input_text, find, replace, regex, case_sensitive) ==
    IF regex
    THEN LET re == RegexBuild(find, ~case_sensitive)
         IN  IF re.ok THEN StepOk(RegexReplaceAll(re, input_text, replace))
                      ELSE StepErr(RegexError(find))
    ELSE IF case_sensitive
         THEN StepOk(StrReplace(input_text, find, replace))
         ELSE LET re == RegexBuild(RegexEscape(find), TRUE)
              IN  IF re.ok THEN StepOk(RegexReplaceAll(re, input_text, replace))
                           ELSE StepErr(RegexError(RegexEscape(find)))

execute_unit(input_text, unit) ==
    IF unit.type = "Prompt"
    THEN StepCall(Request(unit.system_prompt,
                          StrReplace(unit.user_prompt_template, <<INPUT_PH>>, input_text),
                          unit.model))
    ELSE text_replacement(input_text, unit.find, unit.replace, unit.regex,
                          unit.case_sensitive)

execute_unit_type(input_text, unit_type) ==
    IF unit_type.type = "Prompt"
    THEN StepCall(Request(unit_type.system_prompt,
                          StrReplace(unit_type.user_prompt_template, <<INPUT_PH>>,
                                     input_text),
                          unit_type.model))
    ELSE text_replacement(input_text, unit_type.find, unit_type.replace,
                          unit_type.regex, unit_type.case_sensitive)

(***************************************************************************)
(* State.                                                                  *)
(***************************************************************************)
VARIABLES
    pipeline,              \* the Pipeline: enabled, unit_refs, units
    optimization_enabled,  \* PipelineExecutor.optimization_enabled
    pc,                    \* "idle", "exec", "await" (a call is in flight), "done"
    entry,                 \* the entry point of the run: "execute", "execute_with_units"
    input,                 \* the input text of the run
    current_text,          \* the running text
    log_entries,           \* the log of the run so far
    batches,               \* execute: the planned batches
    batch_idx,             \* execute: the batch being executed (1-based)
    resolved_units,        \* execute_with_units: the resolved, enabled units
    unit_idx,              \* the unit being executed, in its batch or in resolved_units
    inflight,              \* the request of the call in flight, or None
    result,                \* what the run returned, or None
    events,                \* history: calls issued, replacements made, warnings, failures
    failed_ids,            \* history: ids and names of the units whose execution failed
    planUnits,             \* the planner on its own: its input
    planOut,               \* the planner on its own: its batches
    planPc,
    repCase,               \* a text replacement on its own: text, find, replace
    repOut,                \* what execute_unit and execute_unit_type returned for it
    audio,                 \* the silence remover on its own: the AudioBuffer it is given
    remover,               \* the SilenceRemover
    silenceOut,            \* what remove_silence returned
    processing_units,      \* Config.processing_units
    pipelines,             \* Config.pipelines
    last_used_pipeline,    \* Config.last_used_pipeline
    store_op,              \* history: the last operation on the Config, its id, its effect
    entries,               \* StructuredLogger.entries
    max_entries,           \* StructuredLogger.max_entries
    logged,                \* history: the entries logged since the logger was made or cleared
    registered,            \* the hotkeys the GlobalHotKeyManager has registered
    record_sequence,       \* HotkeyManager.record_sequence
    receiver,              \* the GlobalHotKeyEvent channel: events not yet received
    consumed,              \* history: the last events check_events took off the channel
    toggled,               \* what the last check_events returned
    state,                 \* AudioRecorder.state, with the samples of a Recording
    actual_sample_rate,    \* AudioRecorder.actual_sample_rate
    wav,                   \* the file the last successful stop_recording wrote, or none
    recorder_op,           \* history: the last call on the recorder, the state before it, its result
    is_recording,          \* App.recording_screen.is_recording
    is_transcribing,       \* App.recording_screen.is_transcribing
    recorder,              \* App.recorder: "none" or "some"
    transcription_result,  \* App.recording_screen.transcription_result: "none" or "some"
    message_rx,            \* the AppMessage channel: messages sent and not yet received
    tasks,                 \* the transcription tasks spawned and not yet finished
    pipeline_tasks,        \* the number of pipeline tasks spawned and not yet finished
    unanswered,            \* history: transcription tasks whose terminal message is not yet processed
    recordings,            \* history: the number of recordings started so far
    temp_dir,              \* the compressed files in the temporary directory
    now,                   \* the clock, in seconds
    call                   \* TranscriptionClient::transcribe: the call under way or returned

execVars ==
    <<pipeline, optimization_enabled, pc, entry, input, current_text, log_entries,
      batches, batch_idx, resolved_units, unit_idx, inflight, result, events,
      failed_ids>>

planVars == <<planUnits, planOut, planPc>>

repVars == <<repCase, repOut>>

audioVars == <<audio, remover, silenceOut>>

storeVars == <<processing_units, pipelines, last_used_pipeline, store_op>>

logVars == <<entries, max_entries, logged>>

hotkeyVars == <<registered, record_sequence, receiver, consumed, toggled>>

recorderVars == <<state, actual_sample_rate, wav, recorder_op>>

uiVars ==
    <<is_recording, is_transcribing, recorder, transcription_result, message_rx, tasks,
      pipeline_tasks, unanswered, recordings>>

clientVars == <<temp_dir, now, call>>

lateVars == <<recorderVars, uiVars, clientVars>>

appVars == <<storeVars, logVars, hotkeyVars, lateVars>>

sideVars == <<planVars, repVars, audioVars, appVars>>

vars == <<execVars, sideVars>>

(***************************************************************************)
(* Pipeline::new and the operations that build a pipeline.                 *)
(***************************************************************************)
PipelineUnitReference(unit_id, enabled) == [unit_id |-> unit_id, enabled |-> enabled]

NewPipeline(enabled) ==
    [name |-> "pl", enabled |-> enabled, unit_refs |-> <<>>, units |-> <<>>]

PipelineSize(p) == Len(p.units) + Len(p.unit_refs)

UnitIds == {u.id : u \in Catalog} \cup DanglingIds

add_unit(unit) ==
    /\ pc = "idle"
    /\ PipelineSize(pipeline) < MaxUnits
    /\ pipeline' = [pipeline EXCEPT !.units = Append(@, unit)]
    /\ UNCHANGED <<optimization_enabled, pc, entry, input, current_text, log_entries,
                   batches, batch_idx, resolved_units, unit_idx, inflight, result,
                   events, failed_ids, sideVars>>

add_unit_ref_with_state(unit_id, enabled) ==
    /\ pc = "idle"
    /\ PipelineSize(pipeline) < MaxUnits
    /\ pipeline' = [pipeline EXCEPT
                      !.unit_refs = Append(@, PipelineUnitReference(unit_id, enabled))]
    /\ UNCHANGED <<optimization_enabled, pc, entry, input, current_text, log_entries,
                   batches, batch_idx, resolved_units, unit_idx, inflight, result,
                   events, failed_ids, sideVars>>

\* a variant of add_unit_ref that inserts the reference at the front
add_unit_ref_front(unit_id) ==
    /\ pc = "idle"
    /\ PipelineSize(pipeline) < MaxUnits
    /\ pipeline' = [pipeline EXCEPT
                      !.unit_refs = <<PipelineUnitReference(unit_id, TRUE)>> \o @]
    /\ UNCHANGED <<optimization_enabled, pc, entry, input, current_text, log_entries,
                   batches, batch_idx, resolved_units, unit_idx, inflight, result,
                   events, failed_ids, sideVars>>

add_unit_ref(unit_id) ==
    /\ pc = "idle"
    /\ PipelineSize(pipeline) < MaxUnits
    /\ pipeline' = [pipeline EXCEPT
                      !.unit_refs = Append(@, PipelineUnitReference(unit_id, TRUE))]
    /\ UNCHANGED <<optimization_enabled, pc, entry, input, current_text, log_entries,
                   batches, batch_idx, resolved_units, unit_idx, inflight, result,
                   events, failed_ids, sideVars>>

with_optimization(enabled) ==
    /\ pc = "idle"
    /\ optimization_enabled' = enabled
    /\ UNCHANGED <<pipeline, pc, entry, input, current_text, log_entries,
                   batches, batch_idx, resolved_units, unit_idx, inflight, result,
                   events, failed_ids, sideVars>>

(***************************************************************************)
(* What a run returns: Result<ExecutionResult>.                            *)
(***************************************************************************)
Pending == [kind |-> "Pending"]

Ok(output, log, total_duration) ==
    [kind |-> "Ok", output |-> output, log_entries |-> log,
     total_duration |-> total_duration]

Err(e) == [kind |-> "Err", error |-> e]

\* a variant of propagate that hands the partial text and log back with the error
propagate_partial(e, text, log) ==
    [kind |-> "Err", error |-> e, output |-> text, log_entries |-> log]

\* the `?` on a failed step: the function returns the error and drops its locals
propagate(e, text, log) == Err(e)

ExecutionLogEntry(unit_name, input_text, output, optimized) ==
    [unit_name |-> unit_name, input |-> input_text, output |-> output,
     optimized |-> optimized]

(***************************************************************************)
(* execute_with_units: resolving the references.                           *)
(***************************************************************************)
\* units.iter().find(|u| u.id == unit_id): <<>> or <<the first such unit>>
find_unit(units, unit_id) ==
    LET hits == {i \in 1..Len(units) : units[i].id = unit_id}
    IN  IF hits = {} THEN <<>>
        ELSE <<units[CHOOSE i \in hits : \A j \in hits : i <= j]>>

\* a variant of skip_ref that ignores the enabled flag
skip_ref_never(unit_ref) == FALSE

\* is the reference dropped without looking it up
skip_ref(unit_ref) == ~unit_ref.enabled

\* a variant of resolve_from that gives up at the first dangling reference
RECURSIVE resolve_from_stop(_, _, _, _, _)
resolve_from_stop(unit_refs, units, i, resolved, warned) ==
    IF i > Len(unit_refs)
    THEN [resolved |-> resolved, warned |-> warned]
    ELSE IF ~unit_refs[i].enabled
         THEN resolve_from_stop(unit_refs, units, i + 1, resolved, warned)
         ELSE LET found == find_unit(units, unit_refs[i].unit_id)
              IN  IF found # <<>>
                  THEN resolve_from_stop(unit_refs, units, i + 1,
                                         Append(resolved, found[1]), warned)
                  ELSE [resolved |-> resolved,
                        warned |-> Append(warned, [ev |-> "warn",
                                                   unit_id |-> unit_refs[i].unit_id])]

RECURSIVE resolve_from(_, _, _, _, _)
resolve_from(unit_refs, units, i, resolved, warned) ==
    IF i > Len(unit_refs)
    THEN [resolved |-> resolved, warned |-> warned]
    ELSE IF skip_ref(unit_refs[i])
         THEN resolve_from(unit_refs, units, i + 1, resolved, warned)
         ELSE LET found == find_unit(units, unit_refs[i].unit_id)
              IN  IF found # <<>>
                  THEN resolve_from(unit_refs, units, i + 1,
                                    Append(resolved, found[1]), warned)
                  ELSE resolve_from(unit_refs, units, i + 1, resolved,
                                    Append(warned, [ev |-> "warn",
                                                    unit_id |-> unit_refs[i].unit_id]))

resolve(unit_refs, units) == resolve_from(unit_refs, units, 1, <<>>, <<>>)

(***************************************************************************)
(* execute: planning.                                                      *)
(***************************************************************************)
\* a variant of plan_batches that plans with create_batches whatever the switch says
plan_batches_always(units) == create_batches(units)

plan_batches(units) ==
    IF optimization_enabled
    THEN create_batches(units)
    ELSE [i \in 1..Len(units) |-> UnitBatch(<<units[i]>>, FALSE, None, None)]

(***************************************************************************)
(* The position of a run and how it advances.                              *)
(***************************************************************************)
\* a variant of InOptimized that never takes the optimized path
InOptimized_never == FALSE

InOptimized == entry = "execute" /\ batches[batch_idx].optimizable

\* the unit at the current position
CurUnit ==
    IF entry = "execute" THEN batches[batch_idx].units[unit_idx]
    ELSE resolved_units[unit_idx]

\* the units the current step executes: one unit, or a whole optimizable batch
CurUnits == IF InOptimized THEN batches[batch_idx].units ELSE <<CurUnit>>

Identity(units) == {units[i].id : i \in 1..Len(units)}
                   \cup {units[i].name : i \in 1..Len(units)}

NextPos ==
    IF entry = "execute"
    THEN IF ~InOptimized /\ unit_idx < Len(batches[batch_idx].units)
         THEN [b |-> batch_idx, u |-> unit_idx + 1]
         ELSE [b |-> batch_idx + 1, u |-> 1]
    ELSE [b |-> batch_idx, u |-> unit_idx + 1]

AtEnd(pos) ==
    IF entry = "execute" THEN pos.b > Len(batches)
    ELSE pos.u > Len(resolved_units)

\* a variant of advance that leaves the running text as it was
advance_stale(new_text, new_log) ==
    /\ current_text' = current_text
    /\ log_entries' = new_log
    /\ batch_idx' = NextPos.b
    /\ unit_idx' = NextPos.u
    /\ inflight' = <<>>
    /\ IF AtEnd(NextPos)
       THEN /\ pc' = "done"
            /\ \E d \in 0..MaxElapsed : result' = Ok(new_text, new_log, d)
       ELSE /\ pc' = "exec"
            /\ result' = result

\* a variant of advance that goes on while the call is still in flight
advance_in_flight(new_text, new_log) ==
    /\ current_text' = new_text
    /\ log_entries' = new_log
    /\ batch_idx' = NextPos.b
    /\ unit_idx' = NextPos.u
    /\ inflight' = inflight
    /\ IF AtEnd(NextPos)
       THEN /\ pc' = "done"
            /\ \E d \in 0..MaxElapsed : result' = Ok(new_text, new_log, d)
       ELSE /\ pc' = "exec"
            /\ result' = result

\* the loop goes on with the new text and log, or the run returns Ok
advance(new_text, new_log) ==
    /\ current_text' = new_text
    /\ log_entries' = new_log
    /\ batch_idx' = NextPos.b
    /\ unit_idx' = NextPos.u
    /\ inflight' = <<>>
    /\ IF AtEnd(NextPos)
       THEN /\ pc' = "done"
            /\ \E d \in 0..MaxElapsed : result' = Ok(new_text, new_log, d)
       ELSE /\ pc' = "exec"
            /\ result' = result

\* the run returns the error of a failed step
abort(e) ==
    /\ result' = propagate(e, current_text, log_entries)
    /\ pc' = "done"
    /\ inflight' = <<>>
    /\ events' = Append(events, [ev |-> "fail", error |-> e])
    /\ failed_ids' = Identity(CurUnits)
    /\ UNCHANGED <<current_text, log_entries, batch_idx, unit_idx>>

(***************************************************************************)
(* PipelineExecutor::execute_with_units, up to its first unit.             *)
(***************************************************************************)
\* the identity no-op both short circuits return
short_circuit(input_text) ==
    /\ result' = Ok(input_text, <<>>, 0)
    /\ pc' = "done"
    /\ UNCHANGED <<current_text, log_entries, resolved_units, unit_idx>>

execute_with_units(input_text) ==
    /\ pc = "idle"
    /\ entry' = "execute_with_units"
    /\ input' = input_text
    /\ IF ~pipeline.enabled
       THEN /\ short_circuit(input_text)
            /\ events' = events
       ELSE LET r == resolve(pipeline.unit_refs, StoredUnits) IN
            /\ events' = events \o r.warned
            /\ IF r.resolved = <<>>
               THEN short_circuit(input_text)
               ELSE /\ resolved_units' = r.resolved
                    /\ current_text' = input_text
                    /\ log_entries' = <<>>
                    /\ unit_idx' = 1
                    /\ pc' = "exec"
                    /\ result' = result
    /\ UNCHANGED <<pipeline, optimization_enabled, batches, batch_idx, inflight,
                   failed_ids, sideVars>>

(***************************************************************************)
(* PipelineExecutor::execute (legacy), up to its first batch.              *)
(***************************************************************************)
execute(input_text) ==
    /\ pc = "idle"
    /\ entry' = "execute"
    /\ input' = input_text
    /\ current_text' = input_text
    /\ log_entries' = <<>>
    /\ batches' = plan_batches(pipeline.units)
    /\ batch_idx' = 1
    /\ unit_idx' = 1
    /\ IF pipeline.units = <<>>
       THEN /\ pc' = "done"
            /\ \E d \in 0..MaxElapsed : result' = Ok(input_text, <<>>, d)
       ELSE /\ pc' = "exec"
            /\ result' = result
    /\ UNCHANGED <<pipeline, optimization_enabled, resolved_units, inflight, events,
                   failed_ids, sideVars>>

(***************************************************************************)
(* One iteration of the loop of either entry point.                        *)
(***************************************************************************)
\* execute_batch_optimized up to its await: compile, then one call
start_batch_optimized ==
    /\ pc = "exec"
    /\ InOptimized
    /\ LET batch == batches[batch_idx]
           prompt == compile_chained_prompt(current_text, batch)
           req == Request(prompt.system_prompt, prompt.user_prompt, batch.model)
       IN  IF batch.model = None
           THEN \* batch.model.as_ref().unwrap() panics
                /\ result' = [kind |-> "Panic"]
                /\ pc' = "done"
                /\ UNCHANGED <<inflight, events>>
           ELSE /\ inflight' = <<req>>
                /\ pc' = "await"
                /\ events' = Append(events, [ev |-> "call", req |-> req])
                /\ result' = result
    /\ UNCHANGED <<pipeline, optimization_enabled, entry, input, current_text,
                   log_entries, batches, batch_idx, resolved_units, unit_idx,
                   failed_ids, sideVars>>

\* a unit run on its own: a Prompt issues its call, a TextReplacement is applied
start_unit ==
    /\ pc = "exec"
    /\ ~InOptimized
    /\ LET step == IF entry = "execute"
                   THEN execute_unit(current_text, CurUnit)
                   ELSE execute_unit_type(current_text, CurUnit.unit_type)
       IN  CASE step.kind = "call" ->
                  /\ inflight' = <<step.req>>
                  /\ pc' = "await"
                  /\ events' = Append(events, [ev |-> "call", req |-> step.req])
                  /\ UNCHANGED <<current_text, log_entries, batch_idx, unit_idx,
                                 result, failed_ids>>
             [] step.kind = "ok" ->
                  /\ advance(step.text,
                             Append(log_entries,
                                    ExecutionLogEntry(CurUnit.name, current_text,
                                                      step.text, FALSE)))
                  /\ events' = Append(events, [ev |-> "replace", unit |-> CurUnit.id])
                  /\ failed_ids' = failed_ids
             [] OTHER -> abort(step.error)
    /\ UNCHANGED <<pipeline, optimization_enabled, entry, input, batches,
                   resolved_units, sideVars>>

\* the label of the log entry of the step whose call returned
EntryName ==
    IF InOptimized
    THEN "OPTIMIZED CHAIN (" \o ToString(Len(batches[batch_idx].units)) \o " units)"
    ELSE CurUnit.name

\* a variant of call_returns that logs every step as not optimized
call_returns_unflagged(response) ==
    /\ pc = "await"
    /\ advance(response,
               Append(log_entries,
                      ExecutionLogEntry(EntryName, current_text, response, FALSE)))
    /\ events' = Append(events, [ev |-> "response", text |-> response])
    /\ UNCHANGED <<pipeline, optimization_enabled, entry, input, batches,
                   resolved_units, failed_ids, sideVars>>

\* the call in flight returns a response
call_returns(response) ==
    /\ pc = "await"
    /\ advance(response,
               Append(log_entries,
                      ExecutionLogEntry(EntryName, current_text, response,
                                        InOptimized)))
    /\ events' = Append(events, [ev |-> "response", text |-> response])
    /\ UNCHANGED <<pipeline, optimization_enabled, entry, input, batches,
                   resolved_units, failed_ids, sideVars>>

\* a variant of call_fails that swallows the error and goes on with the next step
call_fails_continue(e) ==
    /\ pc = "await"
    /\ IF AtEnd(NextPos)
       THEN abort(e)
       ELSE /\ events' = Append(events, [ev |-> "fail", error |-> e])
            /\ batch_idx' = NextPos.b
            /\ unit_idx' = NextPos.u
            /\ inflight' = <<>>
            /\ pc' = "exec"
            /\ UNCHANGED <<current_text, log_entries, result, failed_ids>>
    /\ UNCHANGED <<pipeline, optimization_enabled, entry, input, batches,
                   resolved_units, sideVars>>

\* the call in flight fails
call_fails(e) ==
    /\ pc = "await"
    /\ abort(e)
    /\ UNCHANGED <<pipeline, optimization_enabled, entry, input, batches,
                   resolved_units, sideVars>>

(***************************************************************************)
(* The executor: a pipeline is built, then run once.                       *)
(***************************************************************************)
PlanIdle == planUnits = <<>> /\ planOut = <<>> /\ planPc = "off"

RepIdle == repCase = <<>> /\ repOut = <<>>

AudioIdle == audio = <<>> /\ remover = <<>> /\ silenceOut = <<>>

\* Config::default: no unit, no pipeline, no last used pipeline
StoreIdle ==
    /\ processing_units = <<>>
    /\ pipelines = <<>>
    /\ last_used_pipeline = None
    /\ store_op = [op |-> "default", id |-> None, hit |-> FALSE]

\* StructuredLogger::new: with_capacity(1000)
DefaultCapacity == 1000

\* StructuredLogger::with_capacity: no entries, the given capacity
with_capacity(capacity) == entries = <<>> /\ max_entries = capacity /\ logged = <<>>

LogIdle == with_capacity(DefaultCapacity)

\* HotkeyManager::new: no sequence registered
HotkeyIdle ==
    /\ registered = {}
    /\ record_sequence = <<>>
    /\ receiver = <<>>
    /\ consumed = <<>>
    /\ toggled = "none"

\* AudioRecorder::new: Idle, the configured sample rate, nothing written
ConfigSampleRate == 16000

RecorderIdle ==
    /\ state = [tag |-> "Idle", samples |-> <<>>]
    /\ actual_sample_rate = ConfigSampleRate
    /\ wav = <<>>
    /\ recorder_op = [op |-> "new", before |-> "Idle", result |-> "Ok"]

\* App::new: no recorder, nothing recording or transcribing, an empty channel
UiIdle ==
    /\ is_recording = FALSE
    /\ is_transcribing = FALSE
    /\ recorder = "none"
    /\ transcription_result = "none"
    /\ message_rx = <<>>
    /\ tasks = <<>>
    /\ pipeline_tasks = 0
    /\ unanswered = {}
    /\ recordings = 0

\* no call of TranscriptionClient::transcribe yet, no compressed file
ClientIdle ==
    /\ temp_dir = {}
    /\ now = 0
    /\ call = [pc |-> "none", created |-> <<>>, result |-> "None"]

LateIdle == RecorderIdle /\ UiIdle /\ ClientIdle

AppIdle == StoreIdle /\ LogIdle /\ HotkeyIdle /\ LateIdle

\* the pipeline executor before anything was built or run
ExecIdle ==
    /\ pipeline = NewPipeline(TRUE)
    /\ optimization_enabled = TRUE
    /\ pc = "idle"
    /\ entry = "none"
    /\ input = <<>>
    /\ current_text = <<>>
    /\ log_entries = <<>>
    /\ batches = <<>>
    /\ batch_idx = 1
    /\ resolved_units = <<>>
    /\ unit_idx = 1
    /\ inflight = <<>>
    /\ result = Pending
    /\ events = <<>>
    /\ failed_ids = {}

Init ==
    /\ pipeline \in {NewPipeline(e) : e \in BOOLEAN}
    /\ optimization_enabled = TRUE
    /\ pc = "idle"
    /\ entry = "none"
    /\ input = <<>>
    /\ current_text = <<>>
    /\ log_entries = <<>>
    /\ batches = <<>>
    /\ batch_idx = 1
    /\ resolved_units = <<>>
    /\ unit_idx = 1
    /\ inflight = <<>>
    /\ result = Pending
    /\ events = <<>>
    /\ failed_ids = {}
    /\ PlanIdle
    /\ RepIdle
    /\ AudioIdle
    /\ AppIdle

Next ==
    \/ \E u \in Catalog : add_unit(u)
    \/ \E id \in UnitIds : add_unit_ref(id)
    \/ \E id \in UnitIds, en \in BOOLEAN : add_unit_ref_with_state(id, en)
    \/ \E en \in BOOLEAN : with_optimization(en)
    \/ \E t \in Inputs : execute(t)
    \/ \E t \in Inputs : execute_with_units(t)
    \/ start_batch_optimized
    \/ start_unit
    \/ \E r \in Responses : call_returns(r)
    \/ \E e \in ServiceErrors : call_fails(e)

Spec == Init /\ [][Next]_vars

(***************************************************************************)
(* The batch planner on its own: create_batches applied to a unit list.    *)
(***************************************************************************)
plan ==
    /\ planPc = "ready"
    /\ planOut' = create_batches(planUnits)
    /\ planPc' = "planned"
    /\ UNCHANGED <<planUnits, execVars, repVars, audioVars, appVars>>

InitPlan ==
    /\ pipeline = NewPipeline(TRUE)
    /\ optimization_enabled = TRUE
    /\ pc = "idle"
    /\ entry = "none"
    /\ input = <<>>
    /\ current_text = <<>>
    /\ log_entries = <<>>
    /\ batches = <<>>
    /\ batch_idx = 1
    /\ resolved_units = <<>>
    /\ unit_idx = 1
    /\ inflight = <<>>
    /\ result = Pending
    /\ events = <<>>
    /\ failed_ids = {}
    /\ planUnits \in SeqsUpTo(Catalog, MaxPlanUnits)
    /\ planOut = <<>>
    /\ planPc = "ready"
    /\ RepIdle
    /\ AudioIdle
    /\ AppIdle

NextPlan == plan

SpecPlan == InitPlan /\ [][NextPlan]_vars

(***************************************************************************)
(* A non-regex, case-insensitive TextReplacement on its own: the unit is   *)
(* applied to a text by execute_unit and, as a stored unit, by             *)
(* execute_unit_type.  Replacement strings hold no "$".                    *)
(***************************************************************************)
TextAlphabet == {"a", "A", "b", ".", "("}

Replacements == {<<>>, <<"x">>}

ReplaceCase(text, find, replace) == [text |-> text, find |-> find, replace |-> replace]

\* find = "Hello", replace = "hi", input = "hello HELLO world"
HelloCase ==
    ReplaceCase(<<"h", "e", "l", "l", "o", " ", "H", "E", "L", "L", "O", " ",
                  "w", "o", "r", "l", "d">>,
                <<"H", "e", "l", "l", "o">>,
                <<"h", "i">>)

ReplaceCases ==
    {ReplaceCase(t, f, r) : t \in SeqsUpTo(TextAlphabet, MaxTextLen),
                            f \in SeqsUpTo(TextAlphabet, MaxFindLen),
                            r \in Replacements}
    \cup {HelloCase}

InsensitiveUnit(find, replace) ==
    TextReplacementUnit("u6", "R3", find, replace, FALSE, FALSE)

replace_text ==
    /\ repOut = <<>>
    /\ LET unit == InsensitiveUnit(repCase.find, repCase.replace)
       IN  repOut' = <<[unit |-> execute_unit(repCase.text, unit),
                        unit_type |->
                            execute_unit_type(repCase.text,
                                              to_processing_unit(unit).unit_type)]>>
    /\ UNCHANGED <<repCase, execVars, planVars, audioVars, appVars>>

InitReplace ==
    /\ ExecIdle
    /\ PlanIdle
    /\ AudioIdle
    /\ AppIdle
    /\ repCase \in ReplaceCases
    /\ repOut = <<>>

NextReplace == replace_text

SpecReplace == InitReplace /\ [][NextReplace]_vars

(***************************************************************************)
(* audio::AudioBuffer and audio::SilenceRemover.  A sample and the         *)
(* threshold are amplitudes in hundredths of full scale (50 is 0.5); the   *)
(* arithmetic is exact, f32 rounding is not modelled.  An RMS value is     *)
(* kept as the mean square it is the root of, [sq, n] for sqrt(sq / n),    *)
(* in lowest terms; a Duration is [n, rate] for n / rate seconds.          *)
(***************************************************************************)
AudioBuffer(samples, sample_rate, channels) ==
    [samples |-> samples, sample_rate |-> sample_rate, channels |-> channels]

\* AudioBuffer::duration
duration(buffer) ==
    [n |-> Len(buffer.samples) \div buffer.channels, rate |-> buffer.sample_rate]

\* SilenceRemover::new
SilenceRemoverNew(threshold, min_duration_ms) ==
    [threshold |-> threshold, min_duration_ms |-> min_duration_ms,
     window_size_ms |-> 100]

RECURSIVE GCD(_, _)
GCD(a, b) == IF b = 0 THEN a ELSE GCD(b, a % b)

Rms(sq, n) == LET g == GCD(sq, n) IN [kind |-> "rms", sq |-> sq \div g, n |-> n \div g]

ZeroRms == Rms(0, 1)

F32Max == [kind |-> "f32::MAX"]

F32Min == [kind |-> "f32::MIN"]

\* a < b on f32 values
RmsLess(a, b) ==
    CASE a.kind = "f32::MAX" \/ b.kind = "f32::MIN" -> FALSE
      [] a.kind = "f32::MIN" \/ b.kind = "f32::MAX" -> TRUE
      [] OTHER -> a.sq * b.n < b.sq * a.n

RmsMin(a, b) == IF RmsLess(b, a) THEN b ELSE a

RmsMax(a, b) == IF RmsLess(a, b) THEN b ELSE a

\* the sum of the squares of samples[lo..hi]
RECURSIVE SumSq(_, _, _)
SumSq(samples, lo, hi) ==
    IF lo > hi THEN 0
    ELSE IF lo = hi THEN samples[lo] * samples[lo]
    ELSE LET mid == (lo + hi) \div 2
         IN  SumSq(samples, lo, mid) + SumSq(samples, mid + 1, hi)

\* calculate_rms
calculate_rms(window) ==
    IF window = <<>> THEN ZeroRms
    ELSE Rms(SumSq(window, 1, Len(window)), Len(window))

\* slice::chunks(size), size > 0
Chunks(samples, size) ==
    [k \in 1..((Len(samples) + size - 1) \div size) |->
        SubSeq(samples, (k - 1) * size + 1,
               IF k * size < Len(samples) THEN k * size ELSE Len(samples))]

\* the fold of the first loop over the RMS values: min, max
RECURSIVE FoldRms(_, _, _, _)
FoldRms(rms_values, i, min_rms, max_rms) ==
    IF i > Len(rms_values) THEN [min_rms |-> min_rms, max_rms |-> max_rms]
    ELSE FoldRms(rms_values, i + 1, RmsMin(min_rms, rms_values[i]),
                 RmsMax(max_rms, rms_values[i]))

\* sum_rms / len, kept as the values it is the mean of
MeanRms(rms_values) ==
    IF rms_values # <<>> THEN [kind |-> "mean", of |-> rms_values] ELSE ZeroRms

\* a variant of IsSilent that also counts a window whose RMS is the threshold
IsSilent_inclusive(rms, threshold) ==
    threshold >= 0 /\ rms.sq <= threshold * threshold * rms.n

\* rms < self.threshold
IsSilent(rms, threshold) ==
    threshold > 0 /\ rms.sq < threshold * threshold * rms.n

\* a variant of LongEnough that wants more than the minimum
LongEnough_strict(windows, min_silence_windows) == windows > min_silence_windows

\* i - start >= min_silence_windows
LongEnough(windows, min_silence_windows) == windows >= min_silence_windows

\* a variant of SilenceRegion whose end is the last index of the range
SilenceRegion_closed(start_frame, end_frame) ==
    [start_frame |-> start_frame, end_frame |-> end_frame - 1]

SilenceRegion(start_frame, end_frame) ==
    [start_frame |-> start_frame, end_frame |-> end_frame]

\* the loop that marks the regions; i and silence_start count windows from 0
RECURSIVE MarkFrom(_, _, _, _, _, _, _)
MarkFrom(rms_values, i, silence_start, regions, threshold, min_silence_windows, window_size_samples) ==
    IF i >= Len(rms_values)
    THEN [silence_start |-> silence_start, regions |-> regions]
    ELSE IF IsSilent(rms_values[i + 1], threshold)
         THEN MarkFrom(rms_values, i + 1,
                       IF silence_start = <<>> THEN <<i>> ELSE silence_start,
                       regions, threshold, min_silence_windows, window_size_samples)
         ELSE IF silence_start # <<>>
              THEN MarkFrom(rms_values, i + 1, <<>>,
                            IF LongEnough(i - silence_start[1], min_silence_windows)
                            THEN Append(regions,
                                        SilenceRegion(silence_start[1] * window_size_samples,
                                                      i * window_size_samples))
                            ELSE regions,
                            threshold, min_silence_windows, window_size_samples)
              ELSE MarkFrom(rms_values, i + 1, <<>>, regions, threshold,
                            min_silence_windows, window_size_samples)

\* the regions after the loop and the check of a trailing silence
MarkRegions(rms_values, samples_len, threshold, min_silence_windows, window_size_samples) ==
    LET m == MarkFrom(rms_values, 0, <<>>, <<>>, threshold, min_silence_windows,
                      window_size_samples)
    IN  IF m.silence_start # <<>>
           /\ LongEnough(Len(rms_values) - m.silence_start[1], min_silence_windows)
        THEN Append(m.regions,
                    SilenceRegion(m.silence_start[1] * window_size_samples, samples_len))
        ELSE m.regions

\* a variant of Slice that leaves out the first sample of the range
Slice_drop_first(samples, from, to) == SubSeq(samples, from + 2, to)

\* &samples[from..to]
Slice(samples, from, to) == SubSeq(samples, from + 1, to)

\* the loop that copies the audio before each region
RECURSIVE CopyFrom(_, _, _, _, _)
CopyFrom(samples, regions, r, last_end, new_samples) ==
    IF r > Len(regions)
    THEN new_samples \o Slice(samples, last_end, Len(samples))
    ELSE CopyFrom(samples, regions, r + 1, regions[r].end_frame,
                  new_samples \o Slice(samples, last_end, regions[r].start_frame))

\* every slice of the copy loop is in range
RECURSIVE Sliceable(_, _, _, _)
Sliceable(samples_len, regions, r, last_end) ==
    IF r > Len(regions) THEN last_end <= samples_len
    ELSE /\ last_end <= regions[r].start_frame
         /\ regions[r].start_frame <= samples_len
         /\ Sliceable(samples_len, regions, r + 1, regions[r].end_frame)

\* (original - new) / original * 100.0, or 0.0 for an original of no duration
ReductionPercent(original_duration, new_duration) ==
    IF original_duration.n > 0
    THEN [num |-> (original_duration.n - new_duration.n) * 100,
          den |-> original_duration.n]
    ELSE [num |-> 0, den |-> 1]

SilenceAnalysis(min_rms, max_rms, avg_rms, silence_regions, reduction_percent, original_duration, new_duration) ==
    [min_rms |-> min_rms, max_rms |-> max_rms, avg_rms |-> avg_rms,
     silence_regions |-> silence_regions, reduction_percent |-> reduction_percent,
     original_duration |-> original_duration, new_duration |-> new_duration]

\* SilenceRemover::remove_silence; chunks(0) and a slice out of range panic
RemoveSilence(self, buffer) ==
    LET window_size_samples == (buffer.sample_rate * self.window_size_ms) \div 1000
    IN  IF window_size_samples = 0 THEN [kind |-> "Panic"]
        ELSE
        LET windows == Chunks(buffer.samples, window_size_samples)
            rms_values == [k \in 1..Len(windows) |-> calculate_rms(windows[k])]
            stats == FoldRms(rms_values, 1, F32Max, F32Min)
            min_silence_windows == self.min_duration_ms \div self.window_size_ms
            silence_regions ==
                MarkRegions(rms_values, Len(buffer.samples), self.threshold,
                            min_silence_windows, window_size_samples)
        IN  IF ~Sliceable(Len(buffer.samples), silence_regions, 1, 0)
            THEN [kind |-> "Panic"]
            ELSE
            LET new_samples == CopyFrom(buffer.samples, silence_regions, 1, 0, <<>>)
                new_buffer == AudioBuffer(new_samples, buffer.sample_rate,
                                          buffer.channels)
                original_duration == duration(buffer)
                new_duration == duration(new_buffer)
            IN  [kind |-> "Ok",
                 buffer |-> new_buffer,
                 analysis |->
                    SilenceAnalysis(stats.min_rms, stats.max_rms, MeanRms(rms_values),
                                    silence_regions,
                                    ReductionPercent(original_duration, new_duration),
                                    original_duration, new_duration)]

(***************************************************************************)
(* The silence remover on its own: remove_silence applied to a buffer.     *)
(***************************************************************************)
Amplitudes == {0, 1, 50}

SampleRates == {5, 10, 20}

ChannelCounts == {1, 2}

Thresholds == {0, 1, 10}

MinDurations == {0, 150, 200}

\* test_silence_removal: 1 s of 0.5, 2 s of silence, 1 s of 0.5 at 16 kHz mono,
\* SilenceRemover::new(0.01, 1500)
TestBuffer ==
    AudioBuffer([i \in 1..64000 |-> IF i <= 16000 \/ i > 48000 THEN 50 ELSE 0],
                16000, 1)

TestRemover == SilenceRemoverNew(1, 1500)

remove_silence ==
    /\ silenceOut = <<>>
    /\ silenceOut' = <<RemoveSilence(remover, audio)>>
    /\ UNCHANGED <<audio, remover, execVars, planVars, repVars, appVars>>

InitSilence ==
    /\ ExecIdle
    /\ PlanIdle
    /\ RepIdle
    /\ AppIdle
    /\ \/ /\ audio \in {AudioBuffer(s, r, c) : s \in SeqsUpTo(Amplitudes, MaxSamples),
                                              r \in SampleRates, c \in ChannelCounts}
          /\ remover \in {SilenceRemoverNew(t, d) : t \in Thresholds, d \in MinDurations}
       \/ /\ audio = TestBuffer
          /\ remover = TestRemover
    /\ silenceOut = <<>>

NextSilence == remove_silence

SpecSilence == InitSilence /\ [][NextSilence]_vars

(***************************************************************************)
(* config::Config as a store of processing units and pipelines.  Option    *)
(* values of records are <<>> or <<record>>; timestamps, names and the     *)
(* other settings are not modelled; Config::save (the file) is not part    *)
(* of these operations.                                                    *)
(***************************************************************************)
StoreUnitIds == {"u1", "u2"}

StorePipelineIds == {"p1", "p2"}

\* a ProcessingUnit with the given id and the payload of a catalog unit
StoreUnit(id, unit) ==
    [id |-> id, name |-> unit.name, description |-> None,
     unit_type |-> to_processing_unit(unit).unit_type]

StoreUnits == {StoreUnit(id, unit) : id \in StoreUnitIds, unit \in {P1, R1}}

StoreRefs == {PipelineUnitReference("u1", TRUE), PipelineUnitReference("u2", FALSE)}

StorePipeline(id, unit_refs, units) ==
    [id |-> id, name |-> "pl", description |-> None, enabled |-> TRUE,
     unit_refs |-> unit_refs, units |-> units]

\* the same units referenced twice each, interleaved, with differing flags
InterleavedRefs ==
    << PipelineUnitReference("u2", FALSE), PipelineUnitReference("u1", TRUE),
       PipelineUnitReference("u2", TRUE), PipelineUnitReference("u1", FALSE) >>

\* p1 with every short list of references; p2 with the interleaved references,
\* or as a legacy pipeline of inline units
StorePipelines ==
    {StorePipeline("p1", refs, <<>>) : refs \in SeqsUpTo(StoreRefs, MaxRefs)}
    \cup {StorePipeline("p2", InterleavedRefs, <<>>), StorePipeline("p2", <<>>, <<R1, P1>>)}

\* iter().find(|r| r.id == id): the first record of that id, if any
find_by_id(records, id) ==
    IF \E i \in 1..Len(records) : records[i].id = id
    THEN <<records[CHOOSE i \in 1..Len(records) :
                       /\ records[i].id = id
                       /\ \A k \in 1..(i - 1) : records[k].id # id]>>
    ELSE <<>>

\* Config::get_processing_unit, Config::get_pipeline
get_processing_unit(id) == find_by_id(processing_units, id)

get_pipeline(id) == find_by_id(pipelines, id)

\* a variant of save that pushes the record whether or not its id is stored
save_push(records, record) == Append(records, record)

\* a variant of save that keeps the stored record when the id is stored
save_keep(records, record) ==
    IF find_by_id(records, record.id) # <<>> THEN records ELSE Append(records, record)

\* the body of save_processing_unit and save_pipeline: replace in place, or push
save(records, record) ==
    IF find_by_id(records, record.id) # <<>>
    THEN LET i == CHOOSE i \in 1..Len(records) :
                      /\ records[i].id = record.id
                      /\ \A k \in 1..(i - 1) : records[k].id # record.id
         IN  [records EXCEPT ![i] = record]
    ELSE Append(records, record)

\* Vec::retain(|r| r.id != id)
retain_other(records, id) == SelectSeq(records, LAMBDA r : r.id # id)

\* a variant of remove_refs that leaves the references alone
remove_refs_never(p, id) == p

\* pipeline.unit_refs.retain(|r| r.unit_id != id)
remove_refs(p, id) ==
    [p EXCEPT !.unit_refs = SelectSeq(@, LAMBDA r : r.unit_id # id)]

\* a variant of clear_last_used that never clears
clear_last_used_never(last, id) == last

\* if self.last_used_pipeline == Some(id) { self.last_used_pipeline = None }
clear_last_used(last, id) == IF last = id THEN None ELSE last

StoreOp(op, id, hit) == [op |-> op, id |-> id, hit |-> hit]

save_processing_unit(unit) ==
    /\ processing_units' = save(processing_units, unit)
    /\ store_op' = StoreOp("save_processing_unit", unit.id,
                           get_processing_unit(unit.id) # <<>>)
    /\ UNCHANGED <<pipelines, last_used_pipeline>>
    /\ UNCHANGED <<execVars, planVars, repVars, audioVars, logVars, hotkeyVars, lateVars>>

delete_processing_unit(id) ==
    /\ processing_units' = retain_other(processing_units, id)
    /\ pipelines' = [i \in 1..Len(pipelines) |-> remove_refs(pipelines[i], id)]
    /\ store_op' = StoreOp("delete_processing_unit", id,
                           \E i \in 1..Len(pipelines) :
                               \E k \in 1..Len(pipelines[i].unit_refs) :
                                   pipelines[i].unit_refs[k].unit_id = id)
    /\ UNCHANGED last_used_pipeline
    /\ UNCHANGED <<execVars, planVars, repVars, audioVars, logVars, hotkeyVars, lateVars>>

save_pipeline(p) ==
    /\ pipelines' = save(pipelines, p)
    /\ store_op' = StoreOp("save_pipeline", p.id, get_pipeline(p.id) # <<>>)
    /\ UNCHANGED <<processing_units, last_used_pipeline>>
    /\ UNCHANGED <<execVars, planVars, repVars, audioVars, logVars, hotkeyVars, lateVars>>

delete_pipeline(id) ==
    /\ pipelines' = retain_other(pipelines, id)
    /\ last_used_pipeline' = clear_last_used(last_used_pipeline, id)
    /\ store_op' = StoreOp("delete_pipeline", id, last_used_pipeline = id)
    /\ UNCHANGED processing_units
    /\ UNCHANGED <<execVars, planVars, repVars, audioVars, logVars, hotkeyVars, lateVars>>

set_last_used_pipeline(id) ==
    /\ last_used_pipeline' = id
    /\ store_op' = StoreOp("set_last_used_pipeline", id, FALSE)
    /\ UNCHANGED <<processing_units, pipelines>>
    /\ UNCHANGED <<execVars, planVars, repVars, audioVars, logVars, hotkeyVars, lateVars>>

InitStore ==
    /\ ExecIdle
    /\ PlanIdle
    /\ RepIdle
    /\ AudioIdle
    /\ AppIdle

NextStore ==
    \/ \E unit \in StoreUnits : save_processing_unit(unit)
    \/ \E id \in StoreUnitIds : delete_processing_unit(id)
    \/ \E p \in StorePipelines : save_pipeline(p)
    \/ \E id \in StorePipelineIds : delete_pipeline(id)
    \/ \E id \in StorePipelineIds \cup {None} : set_last_used_pipeline(id)

SpecStore == InitStore /\ [][NextStore]_vars

(***************************************************************************)
(* StructuredLogger (logger.rs): a history of log entries with a capacity. *)
(* `logged` records every entry handed to log since the logger was         *)
(* created or last cleared; the code does not keep it.                     *)
(***************************************************************************)
MaxCapacity == 3
MaxOverflow == 2

\* capacities a logger is created with: with_capacity(0..MaxCapacity) and new()
Capacities == 0..MaxCapacity \cup {DefaultCapacity}

\* LogEntry::info(message), the message given by its number
LogEntryInfo(n) == [level |-> "Info", message |-> n]

\* over capacity, drops the entry just pushed
push_entry_drop_newest(history, capacity, log_entry) ==
    IF Len(history) + 1 > capacity THEN history ELSE Append(history, log_entry)

\* push, then remove(0) when the length exceeds max_entries
push_entry(history, capacity, log_entry) ==
    LET pushed == Append(history, log_entry)
    IN  IF Len(pushed) > capacity THEN Tail(pushed) ELSE pushed

\* StructuredLogger::log
log(log_entry) ==
    /\ Len(logged) < max_entries + MaxOverflow
    /\ entries' = push_entry(entries, max_entries, log_entry)
    /\ logged' = Append(logged, log_entry)
    /\ UNCHANGED max_entries
    /\ UNCHANGED <<execVars, planVars, repVars, audioVars, storeVars, hotkeyVars, lateVars>>

\* StructuredLogger::clear
clear ==
    /\ entries' = <<>>
    /\ logged' = <<>>
    /\ UNCHANGED max_entries
    /\ UNCHANGED <<execVars, planVars, repVars, audioVars, storeVars, hotkeyVars, lateVars>>

InitLogger ==
    /\ ExecIdle
    /\ PlanIdle
    /\ RepIdle
    /\ AudioIdle
    /\ StoreIdle
    /\ HotkeyIdle
    /\ LateIdle
    /\ \E capacity \in Capacities : with_capacity(capacity)

\* StructuredLogger::info: the n-th message since creation or clear is "Message n"
info == log(LogEntryInfo(Len(logged)))

NextLogger ==
    \/ info
    \/ clear

SpecLogger == InitLogger /\ [][NextLogger]_vars

(***************************************************************************)
(* HotkeyManager (hotkey.rs).  A hotkey string is given split as the code  *)
(* splits it: a sequence of parts (split on ','), each part a sequence of  *)
(* trimmed words (split on '+').  `consumed` records the last events       *)
(* check_events took off the channel; the code does not keep it.           *)
(***************************************************************************)
MaxPending == 2
MaxHistory == 2

\* "Ctrl+Shift+R" (the default), "Ctrl+K", "Ctrl+K, Ctrl+S", "ctrl+s,CTRL+K",
\* "F1, F1", "Ctrl", "Ctrl+K,"
HotkeyStrings ==
    { <<<<"Ctrl", "Shift", "R">>>>,
      <<<<"Ctrl", "K">>>>,
      <<<<"Ctrl", "K">>, <<"Ctrl", "S">>>>,
      <<<<"ctrl", "s">>, <<"CTRL", "K">>>>,
      <<<<"F1">>, <<"F1">>>>,
      <<<<"Ctrl">>>>,
      <<<<"Ctrl", "K">>, <<"">>>> }

\* str::to_lowercase on the words of HotkeyStrings
to_lowercase(word) ==
    CASE word \in {"Ctrl", "CTRL", "ctrl"} -> "ctrl"
      [] word \in {"Shift", "shift"} -> "shift"
      [] word \in {"R", "r"} -> "r"
      [] word \in {"K", "k"} -> "k"
      [] word \in {"S", "s"} -> "s"
      [] word \in {"F1", "f1"} -> "f1"
      [] OTHER -> word

\* the modifier arms of the match in parse_hotkey
ModifierOf(word) ==
    CASE word \in {"ctrl", "control"} -> "CONTROL"
      [] word = "shift" -> "SHIFT"
      [] word = "alt" -> "ALT"
      [] word \in {"super", "meta", "win", "cmd"} -> "SUPER"
      [] OTHER -> None

\* the key arms of the match in parse_hotkey, for the keys of HotkeyStrings
CodeOf(word) ==
    CASE word = "k" -> "KeyK"
      [] word = "s" -> "KeyS"
      [] word = "r" -> "KeyR"
      [] word = "f1" -> "F1"
      [] word = "space" -> "Space"
      [] OTHER -> None

\* HotKey::new(Some(modifiers), code); its id is computed from both
HotKey(mods, code) == [mods |-> mods, key |-> code]

HotKeyId(hotkey) == hotkey

ParseErr == [ok |-> FALSE]

RECURSIVE ParseWords(_, _, _)
\* the loop of parse_hotkey over the parts of one hotkey
ParseWords(words, mods, key_code) ==
    IF words = <<>>
    THEN IF key_code = None THEN ParseErr
         ELSE [ok |-> TRUE, value |-> HotKey(mods, key_code)]
    ELSE LET word == to_lowercase(Head(words))
         IN  IF ModifierOf(word) # None
             THEN ParseWords(Tail(words), mods \cup {ModifierOf(word)}, key_code)
             ELSE IF CodeOf(word) # None
             THEN ParseWords(Tail(words), mods, CodeOf(word))
             ELSE ParseErr

parse_hotkey(words) == ParseWords(words, {}, None)

\* KeySequence::single and KeySequence::multi: a one second timeout between keys
KeySequence(keys) == [keys |-> keys, timeout |-> 1]

is_single(sequence) == Len(sequence.keys) = 1

RECURSIVE ParseParts(_, _)
ParseParts(parts, keys) ==
    IF parts = <<>> THEN [ok |-> TRUE, value |-> KeySequence(keys)]
    ELSE LET hotkey == parse_hotkey(Head(parts))
         IN  IF hotkey.ok THEN ParseParts(Tail(parts), Append(keys, hotkey.value))
             ELSE ParseErr

\* a string with a comma is a sequence of hotkeys, one without is one hotkey
parse_key_sequence(parts) ==
    IF Len(parts) > 1 THEN ParseParts(parts, <<>>)
    ELSE LET hotkey == parse_hotkey(parts[1])
         IN  IF hotkey.ok THEN [ok |-> TRUE, value |-> KeySequence(<<hotkey.value>>)]
             ELSE ParseErr

KeySet(sequence) == {sequence.keys[k] : k \in 1..Len(sequence.keys)}

RECURSIVE RegisterAll(_, _)
\* manager.register for each key in turn; registering a registered key fails
RegisterAll(keys, hotkeys) ==
    IF keys = <<>> THEN [ok |-> TRUE, registered |-> hotkeys]
    ELSE IF Head(keys) \in hotkeys THEN [ok |-> FALSE, registered |-> hotkeys]
    ELSE RegisterAll(Tail(keys), hotkeys \cup {Head(keys)})

\* HotkeyManager::register_record_toggle
register_record_toggle(hotkey_str) ==
    LET unregistered ==
            IF record_sequence = <<>> THEN registered
            ELSE registered \ KeySet(record_sequence[1])
        parsed == parse_key_sequence(hotkey_str)
        done == RegisterAll(parsed.value.keys, unregistered)
    IN  /\ IF ~parsed.ok
           THEN registered' = unregistered /\ record_sequence' = <<>>
           ELSE /\ registered' = done.registered
                /\ record_sequence' = IF done.ok THEN <<parsed.value>> ELSE <<>>
        /\ consumed' = <<>>
        /\ toggled' = "none"
        /\ UNCHANGED receiver
        /\ UNCHANGED <<execVars, planVars, repVars, audioVars, storeVars, logVars, lateVars>>

\* the operating system reports a press of a registered hotkey on the channel
press(hotkey) ==
    /\ hotkey \in registered
    /\ Len(receiver) < MaxPending
    /\ receiver' = Append(receiver, [id |-> HotKeyId(hotkey)])
    /\ UNCHANGED <<registered, record_sequence, consumed, toggled>>
    /\ UNCHANGED <<execVars, planVars, repVars, audioVars, storeVars, logVars, lateVars>>

\* the position of the first event with one of the ids, 0 when there is none
FirstMatch(queue, ids) ==
    IF \E i \in 1..Len(queue) : queue[i].id \in ids
    THEN CHOOSE i \in 1..Len(queue) :
            /\ queue[i].id \in ids
            /\ \A k \in 1..(i - 1) : queue[k].id \notin ids
    ELSE 0

\* the last MaxHistory of them
Recent(queue) ==
    IF Len(queue) <= MaxHistory THEN queue
    ELSE SubSeq(queue, Len(queue) - MaxHistory + 1, Len(queue))

\* the ids check_events returns true for: the one key of a single sequence,
\* any key of a multi-key sequence
AwaitedIds(sequence) ==
    IF is_single(sequence) THEN {HotKeyId(sequence.keys[1])}
    ELSE {HotKeyId(sequence.keys[k]) : k \in 1..Len(sequence.keys)}

\* HotkeyManager::check_events: try_recv until an awaited event or an empty channel
check_events ==
    /\ IF record_sequence = <<>>
       THEN toggled' = "false" /\ UNCHANGED <<receiver, consumed>>
       ELSE LET at == FirstMatch(receiver, AwaitedIds(record_sequence[1]))
                taken == IF at = 0 THEN Len(receiver) ELSE at
            IN  /\ toggled' = IF at = 0 THEN "false" ELSE "true"
                /\ receiver' = SubSeq(receiver, taken + 1, Len(receiver))
                /\ consumed' = Recent(consumed \o SubSeq(receiver, 1, taken))
    /\ UNCHANGED <<registered, record_sequence>>
    /\ UNCHANGED <<execVars, planVars, repVars, audioVars, storeVars, logVars, lateVars>>

InitHotkey ==
    /\ ExecIdle
    /\ PlanIdle
    /\ RepIdle
    /\ AudioIdle
    /\ AppIdle

\* the hotkeys the strings of HotkeyStrings name
Hotkeys ==
    { HotKey({"CONTROL", "SHIFT"}, "KeyR"), HotKey({"CONTROL"}, "KeyK"),
      HotKey({"CONTROL"}, "KeyS"), HotKey({}, "F1") }

NextHotkey ==
    \/ \E hotkey_str \in HotkeyStrings : register_record_toggle(hotkey_str)
    \/ \E hotkey \in Hotkeys : press(hotkey)
    \/ check_events

SpecHotkey == InitHotkey /\ [][NextHotkey]_vars

(***************************************************************************)
(* audio/recorder.rs: the AudioRecorder on its own.  Its state is Idle,    *)
(* Recording (with the samples the audio callback has copied so far) or    *)
(* Processing.  The device, the stream and the file system are outside the *)
(* program: what they answer is an input of the action.                    *)
(***************************************************************************)
MaxRecorded == 2

\* the sample rates a stream can have: the configured one, the device's default
StreamRates == {ConfigSampleRate, 48000}

\* what the device answers to start_recording
StartOutcomes == {"Ok", "NoInputDevice", "NoSupportedConfig", "StreamError"}

\* what extracting and writing the samples answer to stop_recording
StopOutcomes == {"Ok", "ExtractFailed", "WriteFailed"}

RecordingState(tag, recorded) == [tag |-> tag, samples |-> recorded]

\* AudioRecorder::start_recording: refuses while Recording; a missing device or
\* configuration leaves everything as it was; the sample rate of the stream is
\* stored before the stream is built; at the end the state is Recording
start_recording(outcome, rate) ==
    /\ IF state.tag = "Recording"
       THEN /\ recorder_op' = [op |-> "start_recording", before |-> state.tag,
                               result |-> "AlreadyRecording"]
            /\ UNCHANGED <<state, actual_sample_rate>>
       ELSE /\ recorder_op' = [op |-> "start_recording", before |-> state.tag,
                               result |-> outcome]
            /\ actual_sample_rate' =
                   IF outcome \in {"Ok", "StreamError"} THEN rate ELSE actual_sample_rate
            /\ state' = IF outcome = "Ok" THEN RecordingState("Recording", <<>>) ELSE state
    /\ UNCHANGED wav
    /\ UNCHANGED <<execVars, planVars, repVars, audioVars, storeVars, logVars, hotkeyVars>>
    /\ UNCHANGED <<uiVars, clientVars>>

\* the input stream's callback: the audio thread copies its data to the buffer
audio_callback(data) ==
    /\ state.tag = "Recording"
    /\ Len(state.samples) < MaxRecorded
    /\ state' = RecordingState("Recording", Append(state.samples, data))
    /\ recorder_op' = [op |-> "audio_callback", before |-> state.tag, result |-> "Ok"]
    /\ UNCHANGED <<actual_sample_rate, wav>>
    /\ UNCHANGED <<execVars, planVars, repVars, audioVars, storeVars, logVars, hotkeyVars>>
    /\ UNCHANGED <<uiVars, clientVars>>

\* the state stop_recording leaves when it returns an error: the Processing it
\* put in place of the old state at its start
StateAfterFailedStop_restored(before) == before

StateAfterFailedStop(before) == RecordingState("Processing", <<>>)

\* AudioRecorder::stop_recording: replaces the state by Processing; returns an
\* error if the old state was not Recording, if the samples cannot be extracted
\* or if the file cannot be written; else writes the file and sets the state Idle
stop_recording(outcome) ==
    /\ IF state.tag # "Recording"
       THEN /\ recorder_op' = [op |-> "stop_recording", before |-> state.tag,
                               result |-> "NotRecording"]
            /\ state' = StateAfterFailedStop(state)
            /\ UNCHANGED wav
       ELSE /\ recorder_op' = [op |-> "stop_recording", before |-> state.tag,
                               result |-> outcome]
            /\ IF outcome = "Ok"
               THEN /\ wav' = <<[samples |-> state.samples,
                                 sample_rate |-> actual_sample_rate]>>
                    /\ state' = RecordingState("Idle", <<>>)
               ELSE /\ state' = StateAfterFailedStop(state)
                    /\ UNCHANGED wav
    /\ UNCHANGED actual_sample_rate
    /\ UNCHANGED <<execVars, planVars, repVars, audioVars, storeVars, logVars, hotkeyVars>>
    /\ UNCHANGED <<uiVars, clientVars>>

InitRecorder ==
    /\ ExecIdle
    /\ PlanIdle
    /\ RepIdle
    /\ AudioIdle
    /\ AppIdle

NextRecorder ==
    \/ \E outcome \in StartOutcomes, rate \in StreamRates : start_recording(outcome, rate)
    \/ \E data \in {0, 50} : audio_callback(data)
    \/ \E outcome \in StopOutcomes : stop_recording(outcome)

SpecRecorder == InitRecorder /\ [][NextRecorder]_vars

(***************************************************************************)
(* app.rs: the App's frames, its background tasks and the channel between  *)
(* them.  A frame (update) runs on the UI thread from its first line to    *)
(* its last; the transcription tasks and the pipeline tasks run on the     *)
(* tokio runtime and send their messages between frames.  A transcription  *)
(* task is a position ("load", "silence", "transcribe", "done") and the    *)
(* number of terminal messages it has sent; tasks are numbered in the      *)
(* order they were spawned, and a message carries the number of the task   *)
(* that sent it (0 for the UI thread and for pipeline tasks).  The Log      *)
(* messages of the tasks, whose arm of process_messages only adds to the   *)
(* log, are not in the channel of the model.                               *)
(***************************************************************************)
MaxRecordings == 2

MaxPipelineTasks == 1

AppMessage(kind, from) == [msg |-> kind, from |-> from]

\* the App's fields as one value, for the calls a frame makes one after another
AppFields ==
    [is_recording |-> is_recording, is_transcribing |-> is_transcribing,
     recorder |-> recorder, transcription_result |-> transcription_result,
     message_rx |-> message_rx, tasks |-> tasks, pipeline_tasks |-> pipeline_tasks,
     unanswered |-> unanswered, recordings |-> recordings]

send(app, message) == [app EXCEPT !.message_rx = Append(@, message)]

\* App::start_recording: a new AudioRecorder; if it starts, it is kept and
\* is_recording is set
App_start_recording(app, started) ==
    IF started
    THEN [app EXCEPT !.recorder = "some", !.is_recording = TRUE, !.recordings = @ + 1]
    ELSE app

\* App::stop_recording: takes the recorder, clears is_recording and sends
\* RecordingStopped, or Error if the recorder's stop_recording failed
App_stop_recording(app, outcome) ==
    IF app.recorder = "some"
    THEN send([app EXCEPT !.recorder = "none", !.is_recording = FALSE],
              IF outcome = "Ok" THEN AppMessage("RecordingStopped", 0)
                                ELSE AppMessage("Error", 0))
    ELSE app

\* App::transcribe: with an invalid configuration nothing is started; else
\* is_transcribing is set and the task is spawned
App_transcribe(app, valid) ==
    IF ~valid
    THEN app
    ELSE [app EXCEPT !.is_transcribing = TRUE,
                     !.tasks = Append(@, [pc |-> "load", terminal |-> 0]),
                     !.unanswered = @ \cup {Len(app.tasks) + 1}]

\* one arm of the match of App::process_messages
handle(app, message, valid) ==
    CASE message.msg = "RecordingStopped" -> App_transcribe(app, valid)
      [] message.msg = "TranscriptionComplete" ->
            [app EXCEPT !.transcription_result = "some", !.is_transcribing = FALSE,
                        !.unanswered = @ \ {message.from}]
      [] message.msg = "PipelineComplete" -> [app EXCEPT !.transcription_result = "some"]
      [] message.msg = "Error" ->
            [app EXCEPT !.is_transcribing = FALSE, !.unanswered = @ \ {message.from}]
      [] OTHER -> app

RECURSIVE HandleAll(_, _, _)
HandleAll(app, messages, valid) ==
    IF messages = <<>>
    THEN app
    ELSE HandleAll(handle(app, Head(messages), valid), Tail(messages), valid)

\* App::process_messages: receives and handles every message of the channel
process_messages(app, valid) ==
    HandleAll([app EXCEPT !.message_rx = <<>>], app.message_rx, valid)

\* App::update, the hotkey: stops a recording, or starts one unless transcribing
on_hotkey(app, started, outcome) ==
    IF app.is_recording
    THEN App_stop_recording(app, outcome)
    ELSE IF ~app.is_transcribing THEN App_start_recording(app, started) ELSE app

\* what the user can do in a frame: the Recording screen shows the Stop button
\* while recording, else the Start button, enabled unless transcribing; the
\* Pipelines screen has the Execute button of a pipeline
Clicks == {"None", "StartRecording", "StopRecording", "Execute"}

Offered(app, click) ==
    /\ click = "StartRecording" => ~app.is_recording /\ ~app.is_transcribing
    /\ click = "StopRecording" => app.is_recording

\* App::update, the action of the screen
on_click(app, click, started, outcome) ==
    CASE click = "StartRecording" -> App_start_recording(app, started)
      [] click = "StopRecording" -> App_stop_recording(app, outcome)
      [] click = "Execute" ->
            IF app.transcription_result = "some"
            THEN [app EXCEPT !.pipeline_tasks = @ + 1]
            ELSE app
      [] OTHER -> app

Frame(hotkey, click, started, outcome, valid) ==
    LET received == process_messages(AppFields, valid)
        toggled_app == IF hotkey THEN on_hotkey(received, started, outcome) ELSE received
    IN  [offered |-> Offered(toggled_app, click),
         starts |-> \/ hotkey /\ ~received.is_recording /\ ~received.is_transcribing
                    \/ click = "StartRecording",
         stops |-> \/ hotkey /\ received.is_recording
                   \/ click = "StopRecording",
         app |-> on_click(toggled_app, click, started, outcome)]

\* App::update: the messages, then the hotkey, then the screen.  An answer of
\* the environment that the frame does not ask for is not an input of it.
update(hotkey, click, started, outcome, valid) ==
    \E frame \in {Frame(hotkey, click, started, outcome, valid)} :
        /\ valid \/ \E i \in 1..Len(message_rx) : message_rx[i].msg = "RecordingStopped"
        /\ frame.offered
        /\ started \/ frame.starts
        /\ outcome = "Ok" \/ frame.stops
        /\ frame.app.recordings <= MaxRecordings
        /\ frame.app.pipeline_tasks <= MaxPipelineTasks
        /\ is_recording' = frame.app.is_recording
        /\ is_transcribing' = frame.app.is_transcribing
        /\ recorder' = frame.app.recorder
        /\ transcription_result' = frame.app.transcription_result
        /\ message_rx' = frame.app.message_rx
        /\ tasks' = frame.app.tasks
        /\ pipeline_tasks' = frame.app.pipeline_tasks
        /\ unanswered' = frame.app.unanswered
        /\ recordings' = frame.app.recordings
        /\ UNCHANGED <<execVars, planVars, repVars, audioVars, storeVars, logVars, hotkeyVars>>
        /\ UNCHANGED <<recorderVars, clientVars>>

\* a step of transcription task id: it moves to position pc and sends messages
TaskStep(id, from_pc, to_pc, messages) ==
    /\ id <= Len(tasks)
    /\ tasks[id].pc = from_pc
    /\ tasks' = [tasks EXCEPT ![id] =
                    [pc |-> to_pc,
                     terminal |-> @.terminal + Len(SelectSeq(messages,
                         LAMBDA m : m.msg \in {"TranscriptionComplete", "Error"}))]]
    /\ message_rx' = message_rx \o messages
    /\ UNCHANGED <<is_recording, is_transcribing, recorder, transcription_result,
                   pipeline_tasks, unanswered, recordings>>
    /\ UNCHANGED <<execVars, planVars, repVars, audioVars, storeVars, logVars, hotkeyVars>>
    /\ UNCHANGED <<recorderVars, clientVars>>

\* what the task sends when the audio cannot be loaded
LoadFailed_silent(id) == <<>>

LoadFailed(id) == <<AppMessage("Error", id)>>

\* the task, step 1: AudioBuffer::from_wav of the file the recorder wrote
load_audio(id, loaded) ==
    IF loaded
    THEN TaskStep(id, "load", "silence", <<>>)
    ELSE TaskStep(id, "load", "done", LoadFailed(id))

\* what silence removal can come to: not enabled, skipped for a short
\* recording, done, failed
SilenceOutcomes == {"Disabled", "TooShort", "Removed", "Failed"}

\* the task, step 2: the conditional silence removal; only its failure ends
\* the task, with an Error
silence_removal(id, outcome) ==
    IF outcome = "Failed"
    THEN TaskStep(id, "silence", "done", <<AppMessage("Error", id)>>)
    ELSE TaskStep(id, "silence", "transcribe", <<>>)

\* the task, step 3: the answer of TranscriptionClient::transcribe
transcription_returns(id, ok) ==
    TaskStep(id, "transcribe", "done",
             <<AppMessage(IF ok THEN "TranscriptionComplete" ELSE "Error", id)>>)

\* a pipeline task: the answer of PipelineExecutor::execute
pipeline_returns(ok) ==
    /\ pipeline_tasks > 0
    /\ pipeline_tasks' = pipeline_tasks - 1
    /\ message_rx' =
           Append(message_rx, AppMessage(IF ok THEN "PipelineComplete" ELSE "Error", 0))
    /\ UNCHANGED <<is_recording, is_transcribing, recorder, transcription_result,
                   tasks, unanswered, recordings>>
    /\ UNCHANGED <<execVars, planVars, repVars, audioVars, storeVars, logVars, hotkeyVars>>
    /\ UNCHANGED <<recorderVars, clientVars>>

InitApp ==
    /\ ExecIdle
    /\ PlanIdle
    /\ RepIdle
    /\ AudioIdle
    /\ AppIdle

TaskIds == 1..MaxRecordings

Frames ==
    \E hotkey \in BOOLEAN, click \in Clicks, started \in BOOLEAN,
       outcome \in {"Ok", "WriteFailed"}, valid \in BOOLEAN :
        update(hotkey, click, started, outcome, valid)

LoadSteps == \E id \in TaskIds, loaded \in BOOLEAN : load_audio(id, loaded)

SilenceSteps == \E id \in TaskIds, outcome \in SilenceOutcomes : silence_removal(id, outcome)

TranscriptionSteps == \E id \in TaskIds, ok \in BOOLEAN : transcription_returns(id, ok)

PipelineSteps == \E ok \in BOOLEAN : pipeline_returns(ok)

NextApp ==
    \/ Frames
    \/ LoadSteps
    \/ SilenceSteps
    \/ TranscriptionSteps
    \/ PipelineSteps

SpecApp == InitApp /\ [][NextApp]_vars

TaskSteps == LoadSteps \/ SilenceSteps \/ TranscriptionSteps

\* the runtime goes on running a transcription task that can take a step (its
\* external calls return), and the frames go on
SpecAppFair == SpecApp /\ WF_vars(Frames) /\ WF_vars(TaskSteps)

(***************************************************************************)
(* transcription/client.rs, audio/compressor.rs: a call of                 *)
(* TranscriptionClient::transcribe and the compressed file it makes.  File *)
(* sizes are whole megabytes.  The compressed file is named after the      *)
(* second it is made in; the temporary directory is the set of the seconds *)
(* whose file exists.  The file system, ffmpeg and the provider are        *)
(* outside the program: what they answer is an input of the action.        *)
(***************************************************************************)
MaxClock == 2

\* compressor.rs: MAX_FILE_SIZE_MB; client.rs: the limit of validate_file_size
MAX_FILE_SIZE_MB == 24

UploadLimitMb == 25

\* AudioCompressor::needs_compression
needs_compression(size_mb) == size_mb > MAX_FILE_SIZE_MB

\* TranscriptionClient::validate_file_size
validate_file_size(size_mb) == size_mb <= UploadLimitMb

\* AudioCompressor::compress_to_mp3: the output path is made of the clock; an
\* ffmpeg that cannot be run makes no file, one that fails may leave one, one
\* that succeeds leaves the file, whose path is returned
compress_to_mp3(ffmpeg, partial) ==
    CASE ffmpeg = "Ok" -> [kind |-> "Ok", file |-> <<now>>, written |-> {now}]
      [] ffmpeg = "Failed" ->
            [kind |-> "Err", file |-> <<>>, written |-> IF partial THEN {now} ELSE {}]
      [] OTHER -> [kind |-> "Err", file |-> <<>>, written |-> {}]

\* AudioCompressor::compress_if_needed: None for a small file, an error
\* without ffmpeg, else the compressed file
compress_if_needed(size_mb, ffmpeg, partial) ==
    IF ~needs_compression(size_mb)
    THEN [kind |-> "Ok", file |-> <<>>, written |-> {}]
    ELSE IF ffmpeg = "Unavailable"
         THEN [kind |-> "Err", file |-> <<>>, written |-> {}]
         ELSE compress_to_mp3(ffmpeg, partial)

Returned(created, answer) == [pc |-> "returned", created |-> created, result |-> answer]

\* TranscriptionClient::transcribe up to the request to the provider: the
\* size check and the compression, the validation of the size of the file to
\* send; each `?` returns the error at once
transcribe(readable, size_mb, ffmpeg, partial, compressed_mb) ==
    /\ call.pc # "await"
    /\ IF ~readable
       THEN /\ call' = Returned(<<>>, "IoError")
            /\ UNCHANGED temp_dir
       ELSE LET compressed == compress_if_needed(size_mb, ffmpeg, partial)
                upload_mb == IF compressed.file # <<>> THEN compressed_mb ELSE size_mb
            IN  /\ temp_dir' = temp_dir \cup compressed.written
                /\ call' =
                       IF compressed.kind = "Err"
                       THEN Returned(<<>>, "AudioProcessingError")
                       ELSE IF ~validate_file_size(upload_mb)
                            THEN Returned(compressed.file, "FileSizeError")
                            ELSE [pc |-> "await", created |-> compressed.file,
                                  result |-> "None"]
    /\ UNCHANGED now
    /\ UNCHANGED <<execVars, planVars, repVars, audioVars, storeVars, logVars, hotkeyVars>>
    /\ UNCHANGED <<recorderVars, uiVars>>

\* TranscriptionClient::transcribe from the provider's answer on: the
\* compressed file, if one was made, is removed, and the answer is returned
transcribe_returns(answer) ==
    /\ call.pc = "await"
    /\ temp_dir' = temp_dir \ {call.created[i] : i \in 1..Len(call.created)}
    /\ call' = Returned(call.created, answer)
    /\ UNCHANGED now
    /\ UNCHANGED <<execVars, planVars, repVars, audioVars, storeVars, logVars, hotkeyVars>>
    /\ UNCHANGED <<recorderVars, uiVars>>

\* a second passes
tick ==
    /\ now < MaxClock
    /\ now' = now + 1
    /\ UNCHANGED <<temp_dir, call>>
    /\ UNCHANGED <<execVars, planVars, repVars, audioVars, storeVars, logVars, hotkeyVars>>
    /\ UNCHANGED <<recorderVars, uiVars>>

InitClient ==
    /\ ExecIdle
    /\ PlanIdle
    /\ RepIdle
    /\ AudioIdle
    /\ AppIdle

\* sizes of the file to transcribe and of its compressed form, in megabytes
FileSizes == {10, 25, 30}

CompressedSizes == {3, 25, 26}

NextClient ==
    \/ \E readable \in BOOLEAN, size_mb \in FileSizes,
          ffmpeg \in {"Ok", "Failed", "NotRun", "Unavailable"}, partial \in BOOLEAN,
          compressed_mb \in CompressedSizes :
            transcribe(readable, size_mb, ffmpeg, partial, compressed_mb)
    \/ \E answer \in {"Ok", "BuildFailed", "ApiError"} : transcribe_returns(answer)
    \/ tick

SpecClient == InitClient /\ [][NextClient]_vars

(***************************************************************************)
(* Vocabulary of the properties.                                           *)
(***************************************************************************)
EventsOf(kinds) == SelectSeq(events, LAMBDA e : e.ev \in kinds)

\* nothing was sent to the completion service and no replacement was applied
NoWorkDone == EventsOf({"call", "replace"}) = <<>>

StoredIds == {StoredUnits[i].id : i \in 1..Len(StoredUnits)}

\* the references that are enabled and name a stored unit, in list order
ExpectedRefs ==
    SelectSeq(pipeline.unit_refs, LAMBDA r : r.enabled /\ r.unit_id \in StoredIds)

NameOf(unit_id) == (CHOOSE u \in Catalog : u.id = unit_id).name

ExpectedNames == [i \in 1..Len(ExpectedRefs) |-> NameOf(ExpectedRefs[i].unit_id)]

LogNames == [i \in 1..Len(log_entries) |-> log_entries[i].unit_name]

\* the enabled references that name no stored unit, in list order
DanglingRefs ==
    SelectSeq(pipeline.unit_refs, LAMBDA r : r.enabled /\ r.unit_id \notin StoredIds)

RunWithUnits == entry = "execute_with_units" /\ pc # "idle"

(***************************************************************************)
(* C1: executing a pipeline whose enabled flag is false returns the input  *)
(* unchanged with an empty log and zero duration, and calls nothing and    *)
(* replaces nothing, from either entry point (execute_with_units, execute).*)
(***************************************************************************)
C1_DisabledIsNoOp ==
    (pc # "idle" /\ ~pipeline.enabled) =>
        /\ NoWorkDone
        /\ pc = "done" => result = Ok(input, <<>>, 0)

(***************************************************************************)
(* C2: once an external completion call has failed the run is over: the    *)
(* failure is the last thing that happened (no later call, no later        *)
(* replacement), no call is in flight and the run has returned the error.  *)
(***************************************************************************)
CallFailure(e) == e.ev = "fail" /\ e.error.variant # "RegexError"

LastIsCallFailure == events # <<>> /\ CallFailure(events[Len(events)])

C2_FailureStopsRun ==
    \A i \in 1..Len(events) :
        CallFailure(events[i]) =>
            /\ i = Len(events)
            /\ pc = "done"
            /\ inflight = <<>>
            /\ result.kind = "Err"
            /\ Len(EventsOf({"call"})) = Len(EventsOf({"response"})) + 1

C2_Witness ==
    /\ LastIsCallFailure
    /\ ~AtEnd(NextPos)
    /\ log_entries # <<>>

(***************************************************************************)
(* C3: a failed run returns the error and nothing else: the value the      *)
(* caller receives holds neither the running text nor any log entry.       *)
(***************************************************************************)
C3_FailedRunReturnsOnlyError ==
    EventsOf({"fail"}) # <<>> =>
        /\ result.kind = "Err"
        /\ DOMAIN result = {"kind", "error"}
        /\ result.error = events[Len(events)].error

C3_Witness ==
    /\ result.kind = "Err"
    /\ log_entries # <<>>
    /\ current_text # input

(***************************************************************************)
(* C4: the error a failed run returns names the batch or unit that failed: *)
(* the id or the name of a unit of the failed step is part of the error.   *)
(***************************************************************************)
C4_ErrorNamesFailedUnit ==
    result.kind = "Err" =>
        \E k \in 1..Len(ErrorText(result.error)) :
            ErrorText(result.error)[k] \in failed_ids

(***************************************************************************)
(* C5: with the pipeline enabled, a reference to an id that is not in the  *)
(* store does not fail execute_with_units: the run resolves exactly the    *)
(* enabled references that name a stored unit, in list order, warns once   *)
(* per enabled dangling reference, and a run that no unit fails returns Ok *)
(* with one log entry per resolved unit.                                   *)
(***************************************************************************)
C5_DanglingSkipped ==
    (RunWithUnits /\ pipeline.enabled) =>
        /\ EventsOf({"warn"}) =
              [i \in 1..Len(DanglingRefs) |->
                  [ev |-> "warn", unit_id |-> DanglingRefs[i].unit_id]]
        /\ ExpectedRefs # <<>> =>
              [i \in 1..Len(resolved_units) |-> resolved_units[i].id]
                 = [i \in 1..Len(ExpectedRefs) |-> ExpectedRefs[i].unit_id]
        /\ pc = "done" =>
              \/ result.kind = "Ok" /\ LogNames = ExpectedNames
              \/ result.kind = "Err" /\ failed_ids # {}

C5_Witness ==
    /\ RunWithUnits
    /\ result.kind = "Ok"
    /\ DanglingRefs # <<>>
    /\ Len(log_entries) >= 2
    /\ \E i \in 1..Len(pipeline.unit_refs) :
          /\ pipeline.unit_refs[i].unit_id \in DanglingIds
          /\ pipeline.unit_refs[i].enabled
          /\ 1 < i /\ i < Len(pipeline.unit_refs)

(***************************************************************************)
(* C6: when no reference is both enabled and resolvable, an enabled        *)
(* pipeline's execute_with_units returns at once: input text unchanged,    *)
(* empty log, zero duration, nothing called and nothing replaced.          *)
(***************************************************************************)
C6_NothingToRun ==
    (RunWithUnits /\ pipeline.enabled /\ ExpectedRefs = <<>>) =>
        /\ pc = "done"
        /\ result = Ok(input, <<>>, 0)
        /\ NoWorkDone

C6_Witness ==
    /\ RunWithUnits
    /\ pipeline.enabled
    /\ ExpectedRefs = <<>>
    /\ \E i, j \in 1..Len(pipeline.unit_refs) :
          /\ ~pipeline.unit_refs[i].enabled
          /\ pipeline.unit_refs[i].unit_id \in StoredIds
          /\ pipeline.unit_refs[j].enabled
          /\ pipeline.unit_refs[j].unit_id \in DanglingIds

(***************************************************************************)
(* C7: execution order is reference-list order.  At every point of a run   *)
(* of execute_with_units the log names the first k enabled, resolvable     *)
(* references in list order (all of them when the run returns Ok), and the *)
(* calls issued are those of the Prompt units among the first k or k+1 of  *)
(* them, so a disabled reference produces neither.  add_unit, add_unit_ref *)
(* and add_unit_ref_with_state put the new entry last and keep the others. *)
(***************************************************************************)
IsExpectedPrompt(i) ==
    (CHOOSE u \in Catalog : u.id = ExpectedRefs[i].unit_id).type = "Prompt"

PromptsAmong(n) == Cardinality({i \in 1..n : IsExpectedPrompt(i)})

C7_LogFollowsList ==
    RunWithUnits =>
        LET k == Len(log_entries) IN
        /\ k <= Len(ExpectedNames)
        /\ LogNames = SubSeq(ExpectedNames, 1, k)
        /\ \A i \in 1..k : ~log_entries[i].optimized
        /\ (result.kind = "Ok" /\ pipeline.enabled) => k = Len(ExpectedNames)
        /\ Len(EventsOf({"call"})) =
              PromptsAmong(IF pc = "await" \/ LastIsCallFailure
                           THEN k + 1 ELSE k)

IsAppend(old, new) == new = old \/ (Len(new) = Len(old) + 1 /\ SubSeq(new, 1, Len(old)) = old)

C7_AppendsLast ==
    /\ IsAppend(pipeline.units, pipeline'.units)
    /\ IsAppend(pipeline.unit_refs, pipeline'.unit_refs)

C7_ListOrderIsExecutionOrder == [](C7_LogFollowsList) /\ [][C7_AppendsLast]_vars

C7_Witness ==
    /\ RunWithUnits
    /\ result.kind = "Ok"
    /\ Len(log_entries) = 2
    /\ log_entries[1].unit_name # log_entries[2].unit_name
    /\ Len(pipeline.unit_refs) = 3
    /\ ~pipeline.unit_refs[2].enabled
    /\ pipeline.unit_refs[2].unit_id \in StoredIds

(***************************************************************************)
(* C8: every batch the planner emits is optimizable exactly when it holds  *)
(* at least 2 units, the batch flushed at the end of the list included.    *)
(***************************************************************************)
C8_OptimizableIffTwo ==
    planPc = "planned" =>
        \A b \in 1..Len(planOut) :
            planOut[b].optimizable <=> Len(planOut[b].units) >= 2

(***************************************************************************)
(* C9: the batches of the planner, concatenated in emitted order, are the  *)
(* input list, and no batch is empty.                                      *)
(***************************************************************************)
RECURSIVE ConcatUnits(_)
ConcatUnits(bs) ==
    IF bs = <<>> THEN <<>> ELSE Head(bs).units \o ConcatUnits(Tail(bs))

C9_ConcatReconstructs ==
    planPc = "planned" =>
        /\ ConcatUnits(planOut) = planUnits
        /\ \A b \in 1..Len(planOut) : planOut[b].units # <<>>

C9_Witness ==
    /\ planPc = "planned"
    /\ Len(planUnits) = MaxPlanUnits
    /\ Len(planOut) = 3
    /\ \E b \in 1..Len(planOut) : Len(planOut[b].units) >= 2

(***************************************************************************)
(* C10: batches are maximal runs under strict (provider, model) equality:  *)
(* a batch of 2 or more units holds only Prompt units of the batch's own   *)
(* (provider, model); two adjacent batches are never both Prompt batches   *)
(* of one (provider, model); and [Prompt(gpt-4), Prompt(gpt-4),            *)
(* TextReplacement, Prompt(gpt-4)] gives 3 batches of sizes 2, 1, 1, the   *)
(* first optimizable.                                                      *)
(***************************************************************************)
IsPromptBatch(b) == \A i \in 1..Len(b.units) : b.units[i].type = "Prompt"

BatchKey(b) == <<b.units[1].provider, b.units[1].model>>

IsExampleList(units) ==
    /\ Len(units) = 4
    /\ \A i \in {1, 2, 4} : units[i].type = "Prompt" /\ units[i].model = "gpt-4"
    /\ units[3].type = "TextReplacement"

C10_MaximalRuns ==
    planPc = "planned" =>
        /\ \A b \in 1..Len(planOut) :
              Len(planOut[b].units) >= 2 =>
                  /\ IsPromptBatch(planOut[b])
                  /\ \A i \in 1..Len(planOut[b].units) :
                        /\ planOut[b].units[i].provider = planOut[b].provider
                        /\ planOut[b].units[i].model = planOut[b].model
        /\ \A b \in 1..(Len(planOut) - 1) :
              ~ /\ IsPromptBatch(planOut[b])
                /\ IsPromptBatch(planOut[b + 1])
                /\ BatchKey(planOut[b]) = BatchKey(planOut[b + 1])
        /\ IsExampleList(planUnits) =>
              /\ [b \in 1..Len(planOut) |-> Len(planOut[b].units)] = <<2, 1, 1>>
              /\ planOut[1].optimizable
              /\ planOut[2].units = <<planUnits[3]>>
              /\ planOut[3].units = <<planUnits[4]>>

C10_Witness ==
    /\ planPc = "planned"
    /\ IsExampleList(planUnits)
    /\ planUnits[1] # planUnits[2]

(***************************************************************************)
(* C11: every TextReplacement unit of the input is emitted as a batch of   *)
(* its own, of exactly one unit and not optimizable, so no batch holds a   *)
(* TextReplacement together with another unit, and two units on either     *)
(* side of a TextReplacement are never in one batch.                       *)
(***************************************************************************)
\* the batch that holds the unit at position pos of the concatenated batches
RECURSIVE BatchIndexOf(_, _, _)
BatchIndexOf(bs, b, pos) ==
    IF b > Len(bs) THEN 0
    ELSE IF pos <= Len(bs[b].units) THEN b
    ELSE BatchIndexOf(bs, b + 1, pos - Len(bs[b].units))

IsReplacement(u) == u.type = "TextReplacement"

C11_ReplacementIsBoundary ==
    planPc = "planned" =>
        /\ \A b \in 1..Len(planOut) :
              (\E i \in 1..Len(planOut[b].units) : IsReplacement(planOut[b].units[i])) =>
                  /\ Len(planOut[b].units) = 1
                  /\ ~planOut[b].optimizable
        /\ \A j \in 1..Len(planUnits) :
              IsReplacement(planUnits[j]) =>
                  /\ planOut[BatchIndexOf(planOut, 1, j)].units = <<planUnits[j]>>
                  /\ \A i \in 1..(j - 1), k \in (j + 1)..Len(planUnits) :
                        BatchIndexOf(planOut, 1, i) < BatchIndexOf(planOut, 1, j)
                        /\ BatchIndexOf(planOut, 1, j) < BatchIndexOf(planOut, 1, k)

C11_Witness ==
    /\ planPc = "planned"
    /\ Len(planUnits) = 3
    /\ planUnits[1].type = "Prompt"
    /\ IsReplacement(planUnits[2])
    /\ planUnits[3].type = "Prompt"
    /\ planUnits[3].model = planUnits[1].model
    /\ Len(planOut) = 3

(***************************************************************************)
(* C12: with optimization disabled, execute plans exactly one batch per    *)
(* unit of pipeline.units, each of one unit and not optimizable; the log   *)
(* of the run names the units in order, none marked optimized, and a       *)
(* successful run returns one entry per unit.                              *)
(***************************************************************************)
LegacyRun == entry = "execute" /\ pc # "idle"

C12_DisabledPlansSingletons ==
    (LegacyRun /\ ~optimization_enabled) =>
        /\ Len(batches) = Len(pipeline.units)
        /\ \A i \in 1..Len(batches) :
              /\ batches[i].units = <<pipeline.units[i]>>
              /\ ~batches[i].optimizable
        /\ Len(log_entries) <= Len(pipeline.units)
        /\ \A i \in 1..Len(log_entries) :
              /\ ~log_entries[i].optimized
              /\ log_entries[i].unit_name = pipeline.units[i].name
        /\ result.kind = "Ok" =>
              /\ result.log_entries = log_entries
              /\ Len(log_entries) = Len(pipeline.units)

C12_Witness ==
    /\ LegacyRun
    /\ ~optimization_enabled
    /\ result.kind = "Ok"
    /\ Len(pipeline.units) = 3
    /\ pipeline.units[1] = P1
    /\ pipeline.units[2] = P2
    /\ Len(result.log_entries) = 3

(***************************************************************************)
(* C13: an optimizable batch is executed by exactly one call, made with    *)
(* the model of the batch (the model of every unit of it); when the call   *)
(* returns, exactly one log entry is appended, marked optimized, whose     *)
(* input is the running text before the batch and whose output is the      *)
(* response, the response becomes the running text, and the run moves on   *)
(* to the next batch without another call.                                 *)
(***************************************************************************)
Calls == EventsOf({"call"})

C13_BatchIssuesOneCall ==
    (pc = "exec" /\ InOptimized /\ pc' = "await") =>
        /\ events' = Append(events, [ev |-> "call", req |-> inflight'[1]])
        /\ Len(inflight') = 1
        /\ inflight'[1].model = batches[batch_idx].model
        /\ \A i \in 1..Len(batches[batch_idx].units) :
              batches[batch_idx].units[i].model = inflight'[1].model
        /\ UNCHANGED <<current_text, log_entries, batch_idx>>

C13_BatchLogsOneEntry ==
    (pc = "await" /\ InOptimized /\ pc' # "await" /\ result'.kind \notin {"Err"}) =>
        /\ Len(events') = Len(events) + 1
        /\ events'[Len(events')] = [ev |-> "response", text |-> current_text']
        /\ log_entries' =
              Append(log_entries,
                     [unit_name |-> log_entries'[Len(log_entries')].unit_name,
                      input |-> current_text, output |-> current_text',
                      optimized |-> TRUE])
        /\ batch_idx' = batch_idx + 1

C13_OptimizedBatchOneCall ==
    /\ [][C13_BatchIssuesOneCall]_vars
    /\ [][C13_BatchLogsOneEntry]_vars

C13_Witness ==
    /\ LegacyRun
    /\ Len(log_entries) = 2
    /\ ~log_entries[1].optimized
    /\ log_entries[2].optimized
    /\ log_entries[2].input = log_entries[1].output
    /\ log_entries[2].input # input
    /\ batch_idx = 3
    /\ Len(batches[2].units) = 2
    /\ Len(Calls) = 1

(***************************************************************************)
(* C14: a successful run of execute has sent exactly as many calls as the  *)
(* plan has optimizable batches plus Prompt units in batches that are not  *)
(* optimizable; TextReplacement units send none, and a pipeline of N >= 2  *)
(* Prompt units of one model costs one call.                               *)
(***************************************************************************)
RECURSIVE PlanCalls(_, _)
PlanCalls(bs, b) ==
    IF b > Len(bs) THEN 0
    ELSE (IF bs[b].optimizable THEN 1
          ELSE Len(SelectSeq(bs[b].units, LAMBDA u : u.type = "Prompt")))
         + PlanCalls(bs, b + 1)

OneModelPrompts(units) ==
    /\ Len(units) >= 2
    /\ \A i \in 1..Len(units) :
          units[i].type = "Prompt" /\ units[i].model = units[1].model

C14_CallCount ==
    (LegacyRun /\ result.kind = "Ok") =>
        /\ Len(Calls) = PlanCalls(batches, 1)
        /\ Len(EventsOf({"response"})) = Len(Calls)
        /\ (optimization_enabled /\ OneModelPrompts(pipeline.units)) => Len(Calls) = 1

C14_Witness ==
    /\ LegacyRun
    /\ result.kind = "Ok"
    /\ optimization_enabled
    /\ pipeline.units = <<P1, P2, R1>>
    /\ Len(batches) = 2
    /\ Len(Calls) = 1

(***************************************************************************)
(* C15: execute_with_units plans before it executes: with optimization     *)
(* enabled, a successful run sends the calls of the plan create_batches    *)
(* makes of the resolved units, and a planned batch of two or more Prompt  *)
(* units is logged as one entry marked optimized.                          *)
(***************************************************************************)
UnitOf(unit_id) == CHOOSE u \in Catalog : u.id = unit_id

ExpectedUnits == [i \in 1..Len(ExpectedRefs) |-> UnitOf(ExpectedRefs[i].unit_id)]

C15_RefPathPlans ==
    (RunWithUnits /\ pipeline.enabled /\ optimization_enabled /\ result.kind = "Ok") =>
        LET planned == create_batches(ExpectedUnits) IN
        /\ Len(Calls) = PlanCalls(planned, 1)
        /\ \A b \in 1..Len(planned) :
              Len(planned[b].units) >= 2 =>
                  \E i \in 1..Len(log_entries) : log_entries[i].optimized

(***************************************************************************)
(* C16: in a run of either entry point the log is a chain: the first       *)
(* entry's input is the input text of the run, every later entry's input   *)
(* is the output of the entry before it, the running text is the output of *)
(* the last entry, and a successful run returns that log and that text.    *)
(***************************************************************************)
LastOutput ==
    IF log_entries = <<>> THEN input ELSE log_entries[Len(log_entries)].output

C16_DataFlowChain ==
    (pc \in {"exec", "await"} \/ (pc = "done" /\ log_entries # <<>>)) =>
        /\ log_entries # <<>> => log_entries[1].input = input
        /\ \A i \in 2..Len(log_entries) :
              log_entries[i].input = log_entries[i - 1].output
        /\ current_text = LastOutput
        /\ result.kind = "Ok" =>
              /\ result.log_entries = log_entries
              /\ result.output = LastOutput

C16_Witness ==
    /\ result.kind = "Ok"
    /\ Len(result.log_entries) = 3
    /\ result.log_entries[1].output # input
    /\ result.log_entries[2].output # result.log_entries[1].output
    /\ result.log_entries[3].output # result.log_entries[2].output
    /\ result.output = result.log_entries[3].output

(***************************************************************************)
(* C17: a non-regex, case-insensitive TextReplacement replaces every       *)
(* occurrence of find, found left to right ignoring letter case and        *)
(* taking find token for token (a metacharacter of find stands for         *)
(* itself), by the replacement; find = "Hello", replace = "hi" on          *)
(* "hello HELLO world" gives "hi hi world".  The same holds for the        *)
(* inline unit and for the stored unit.                                    *)
(***************************************************************************)
\* does pat occur in text at position i, letter case ignored
OccursIgnoringCase(text, i, pat) ==
    /\ i + Len(pat) - 1 <= Len(text)
    /\ \A k \in 1..Len(pat) : Fold(text[i + k - 1]) = Fold(pat[k])

RECURSIVE LiteralReplaceFrom(_, _, _, _)
LiteralReplaceFrom(text, i, find, repl) ==
    IF i > Len(text)
    THEN IF find = <<>> THEN repl ELSE <<>>
    ELSE IF OccursIgnoringCase(text, i, find)
         THEN IF find = <<>>
              THEN repl \o <<text[i]>> \o LiteralReplaceFrom(text, i + 1, find, repl)
              ELSE repl \o LiteralReplaceFrom(text, i + Len(find), find, repl)
         ELSE <<text[i]>> \o LiteralReplaceFrom(text, i + 1, find, repl)

C17_InsensitiveLiteralReplace ==
    repOut # <<>> =>
        LET expected == LiteralReplaceFrom(repCase.text, 1, repCase.find, repCase.replace)
        IN  /\ repOut[1].unit = StepOk(expected)
            /\ repOut[1].unit_type = StepOk(expected)
            /\ repCase = HelloCase =>
                  expected = <<"h", "i", " ", "h", "i", " ", "w", "o", "r", "l", "d">>

C17_Witness ==
    /\ repOut # <<>>
    /\ repCase.text = <<"a", ".", "A">>
    /\ repCase.find = <<".">>
    /\ repCase.replace = <<"x">>
    /\ repOut[1].unit = StepOk(<<"a", "x", "A">>)

(***************************************************************************)
(* C18: when the unit to run is a TextReplacement in regex mode whose find *)
(* does not compile, the step returns an error (not a panic) of the        *)
(* ConfigurationError kind, the run ends there with that error as its      *)
(* whole result, nothing is logged for the unit, and no step is taken      *)
(* after a failed run, so the units after it are not executed.             *)
(***************************************************************************)
\* the kinds of spec section 7, by the variant of the error
ErrorKind(e) ==
    CASE e.variant = "RegexError" -> "ConfigurationError"
      [] e.variant \in {"ApiError", "HttpError"} -> "ExternalCallError"
      [] OTHER -> "Other"

\* the payload of the unit at the current position, inline or stored
CurPayload == IF entry = "execute" THEN CurUnit ELSE CurUnit.unit_type

AtMalformedRegex ==
    /\ pc = "exec"
    /\ ~InOptimized
    /\ CurPayload.type = "TextReplacement"
    /\ CurPayload.regex
    /\ ~RegexBuild(CurPayload.find, ~CurPayload.case_sensitive).ok

C18_MalformedStepFails ==
    AtMalformedRegex =>
        /\ pc' = "done"
        /\ result' = Err(RegexError(CurPayload.find))
        /\ ErrorKind(result'.error) = "ConfigurationError"
        /\ events' = Append(events, [ev |-> "fail", error |-> result'.error])
        /\ UNCHANGED <<log_entries, current_text, batch_idx, unit_idx>>

C18_FailedRunIsOver == ~(pc = "done" /\ result.kind = "Err")

SilenceReturned == silenceOut # <<>> /\ silenceOut[1].kind = "Ok"

WindowSize == (audio.sample_rate * remover.window_size_ms) \div 1000

\* the mean square of the window is below the square of the threshold
WindowBelowThreshold(window) ==
    /\ remover.threshold > 0
    /\ SumSq(window, 1, Len(window)) < remover.threshold * remover.threshold * Len(window)

NoWindowBelowThreshold ==
    LET windows == Chunks(audio.samples, WindowSize)
    IN  \A k \in 1..Len(windows) : ~WindowBelowThreshold(windows[k])

C19_OutputNeverLonger ==
    SilenceReturned =>
        LET out == silenceOut[1] IN
        /\ Len(out.buffer.samples) <= Len(audio.samples)
        /\ out.analysis.original_duration = duration(audio)
        /\ out.analysis.new_duration = duration(out.buffer)
        /\ out.analysis.new_duration.rate = out.analysis.original_duration.rate
        /\ out.analysis.new_duration.n <= out.analysis.original_duration.n
        /\ NoWindowBelowThreshold =>
              /\ out.buffer = audio
              /\ out.analysis.silence_regions = <<>>

C19_Witness ==
    /\ SilenceReturned
    /\ audio = AudioBuffer(<<0, 50, 0, 50>>, 20, 1)
    /\ remover = SilenceRemoverNew(10, 0)
    /\ NoWindowBelowThreshold
    /\ silenceOut[1].buffer = audio

(***************************************************************************)
(* C20: for a buffer of whole frames made of loud samples, then a run of   *)
(* samples below the threshold that fills whole windows and lasts at least *)
(* min_duration_ms, then loud samples, remove_silence reports exactly one  *)
(* region, that run, and returns the loud samples before and after it: a   *)
(* shorter buffer, with reduction_percent > 0.  The buffer of              *)
(* test_silence_removal (16 kHz mono, 16000 loud, 32000 silent, 16000      *)
(* loud samples, threshold 0.01, 1500 ms) comes back with one region and   *)
(* its 32000 loud samples, 2.0 s.                                          *)
(***************************************************************************)
\* samples (from, to] are all at or above the threshold, or all below it
AllLoud(from, to) == \A k \in (from + 1)..to : audio.samples[k] >= remover.threshold

AllQuiet(from, to) == \A k \in (from + 1)..to : audio.samples[k] < remover.threshold

\* loud up to a, a quiet run up to b that is long enough, loud to the end
LoudQuietLoud(a, b) ==
    /\ 0 < a /\ a < b /\ b < Len(audio.samples)
    /\ Len(audio.samples) % audio.channels = 0
    /\ AllLoud(a - 1, a) /\ AllQuiet(a, a + 1)
    /\ AllQuiet(b - 1, b) /\ AllLoud(b, b + 1)
    /\ AllLoud(0, a)
    /\ AllQuiet(a, b)
    /\ AllLoud(b, Len(audio.samples))
    /\ (b - a) * 1000 >= remover.min_duration_ms * audio.sample_rate * audio.channels

C20_RemovesTheSilentRun ==
    (silenceOut # <<>> /\ WindowSize > 0) =>
        /\ \A i, j \in 1..(Len(audio.samples) \div WindowSize) :
              LoudQuietLoud(i * WindowSize, j * WindowSize) =>
                  LET a == i * WindowSize
                      b == j * WindowSize
                      out == silenceOut[1]
                  IN  /\ out.kind = "Ok"
                      /\ out.analysis.silence_regions = <<SilenceRegion(a, b)>>
                      /\ out.buffer.samples =
                            SubSeq(audio.samples, 1, a)
                            \o SubSeq(audio.samples, b + 1, Len(audio.samples))
                      /\ Len(out.buffer.samples) < Len(audio.samples)
                      /\ out.analysis.new_duration.n < out.analysis.original_duration.n
                      /\ out.analysis.reduction_percent.num > 0
        /\ (audio = TestBuffer /\ remover = TestRemover) =>
              /\ LoudQuietLoud(16000, 48000)
              /\ Len(silenceOut[1].buffer.samples) = 32000
              /\ silenceOut[1].analysis.new_duration = [n |-> 32000, rate |-> 16000]

C20_Witness ==
    /\ SilenceReturned
    /\ audio = TestBuffer
    /\ remover = TestRemover
    /\ silenceOut[1].analysis.silence_regions = <<SilenceRegion(16000, 48000)>>
    /\ Len(silenceOut[1].buffer.samples) = 32000

(***************************************************************************)
(* C21: given a buffer of no samples, remove_silence returns a buffer of   *)
(* no samples and an analysis whose statistics are all zero: min_rms,      *)
(* max_rms, avg_rms, reduction_percent, both durations, and no region.     *)
(* Stated for sample rates that give a window of at least one sample.      *)
(***************************************************************************)
ZeroDuration(d) == d.n = 0

C21_EmptyBufferAllZero ==
    (silenceOut # <<>> /\ audio.samples = <<>> /\ WindowSize > 0) =>
        /\ silenceOut[1].kind = "Ok"
        /\ silenceOut[1].buffer.samples = <<>>
        /\ silenceOut[1].analysis.min_rms = ZeroRms
        /\ silenceOut[1].analysis.max_rms = ZeroRms
        /\ silenceOut[1].analysis.avg_rms = ZeroRms
        /\ silenceOut[1].analysis.silence_regions = <<>>
        /\ silenceOut[1].analysis.reduction_percent.num = 0
        /\ ZeroDuration(silenceOut[1].analysis.original_duration)
        /\ ZeroDuration(silenceOut[1].analysis.new_duration)

(***************************************************************************)
(* C22: for every non-empty buffer with a positive sample rate and channel *)
(* count, and every threshold and min_duration_ms, remove_silence returns  *)
(* a result, not a panic, also when the window size in samples is 0; the   *)
(* call leaves the buffer and the remover as they were, and a second call  *)
(* on them returns what the first returned.                                *)
(***************************************************************************)
C22_Returns ==
    (/\ silenceOut # <<>>
     /\ audio.samples # <<>>
     /\ audio.sample_rate > 0
     /\ audio.channels > 0) =>
        /\ silenceOut[1].kind = "Ok"
        /\ silenceOut[1] = RemoveSilence(remover, audio)

C22_InputKept == silenceOut = <<>> => (audio' = audio /\ remover' = remover)

C22_TotalDeterministic == [](C22_Returns) /\ [][C22_InputKept]_vars

(***************************************************************************)
(* C29: a maximal run of consecutive silent windows is removed if and only *)
(* if its length in windows times the 100 ms of a window is at least       *)
(* min_duration_ms, whatever min_duration_ms is; a run of one window with  *)
(* min_duration_ms = 150 is kept.                                          *)
(***************************************************************************)
InputWindows == Chunks(audio.samples, WindowSize)

SilentWindow(k) == WindowBelowThreshold(InputWindows[k])

\* windows i..j are a maximal run of silent windows
MaximalSilentRun(i, j) ==
    /\ i <= j
    /\ \A k \in i..j : SilentWindow(k)
    /\ i = 1 \/ ~SilentWindow(i - 1)
    /\ j = Len(InputWindows) \/ ~SilentWindow(j + 1)

\* the samples of windows i..j, as a region
RegionOfRun(i, j) ==
    SilenceRegion((i - 1) * WindowSize,
                  IF j = Len(InputWindows) THEN Len(audio.samples) ELSE j * WindowSize)

\* run_length_windows * window_ms >= min_duration_ms
RunQualifies(i, j) == (j - i + 1) * remover.window_size_ms >= remover.min_duration_ms

ReportedRegions ==
    {silenceOut[1].analysis.silence_regions[k] :
        k \in 1..Len(silenceOut[1].analysis.silence_regions)}

C29_RemovedIffLongEnough ==
    SilenceReturned =>
        \A i, j \in 1..Len(InputWindows) :
            MaximalSilentRun(i, j) =>
                (RegionOfRun(i, j) \in ReportedRegions <=> RunQualifies(i, j))

(***************************************************************************)
(* C30: the reported regions are, in order and one for one, the maximal    *)
(* silent runs that qualify: no region spans a window that is not silent   *)
(* or a silent run that is too short, a run that does not qualify is kept, *)
(* a run that ends the buffer is judged by the same rule and its region    *)
(* ends at the last sample, and the output is the input without the        *)
(* regions.                                                                *)
(***************************************************************************)
QualifyingRegions ==
    {RegionOfRun(i, j) : <<i, j>> \in
        {w \in (1..Len(InputWindows)) \X (1..Len(InputWindows)) :
            MaximalSilentRun(w[1], w[2]) /\ RunQualifies(w[1], w[2])}}

RECURSIVE RegionsLength(_, _)
RegionsLength(regions, r) ==
    IF r > Len(regions) THEN 0
    ELSE regions[r].end_frame - regions[r].start_frame + RegionsLength(regions, r + 1)

C30_RegionsAreQualifyingRuns ==
    SilenceReturned =>
        LET regions == silenceOut[1].analysis.silence_regions IN
        /\ ReportedRegions = QualifyingRegions
        /\ Len(regions) = Cardinality(QualifyingRegions)
        /\ \A k \in 2..Len(regions) : regions[k - 1].end_frame < regions[k].start_frame
        /\ Len(silenceOut[1].buffer.samples)
              = Len(audio.samples) - RegionsLength(regions, 1)

(***************************************************************************)
(* C23: after delete_processing_unit(id) no stored pipeline holds a        *)
(* reference to id and get_processing_unit(id) finds nothing; the other    *)
(* units are kept in their order, every pipeline keeps its place and all   *)
(* its other references in their order with their enabled flags, and       *)
(* last_used_pipeline is untouched.                                        *)
(***************************************************************************)
RefsOf(p) == {p.unit_refs[k].unit_id : k \in 1..Len(p.unit_refs)}

C23_DeleteCascades ==
    \A id \in StoreUnitIds :
        delete_processing_unit(id) =>
            /\ \A i \in 1..Len(pipelines') : id \notin RefsOf(pipelines'[i])
            /\ \A i \in 1..Len(processing_units') : processing_units'[i].id # id
            /\ processing_units' = SelectSeq(processing_units, LAMBDA u : u.id # id)
            /\ Len(pipelines') = Len(pipelines)
            /\ \A i \in 1..Len(pipelines) :
                  /\ pipelines'[i].unit_refs
                        = SelectSeq(pipelines[i].unit_refs, LAMBDA r : r.unit_id # id)
                  /\ pipelines'[i] = [pipelines[i] EXCEPT !.unit_refs = pipelines'[i].unit_refs]
            /\ last_used_pipeline' = last_used_pipeline

C23_DeleteUnitCascades == [][C23_DeleteCascades]_vars

C23_Witness ==
    /\ store_op = StoreOp("delete_processing_unit", "u1", TRUE)
    /\ Len(pipelines) = 2
    /\ pipelines[1].unit_refs = <<PipelineUnitReference("u2", FALSE)>>
    /\ pipelines[2].unit_refs
          = <<PipelineUnitReference("u2", FALSE), PipelineUnitReference("u2", TRUE)>>
    /\ Len(processing_units) = 1

(***************************************************************************)
(* C24: from the empty store, whatever units and pipelines are saved and   *)
(* deleted, no two stored units and no two stored pipelines have the same  *)
(* id; saving a record whose id is stored replaces that record where it    *)
(* is and leaves the number of records as it was.                          *)
(***************************************************************************)
UniqueIds(records) ==
    \A i, k \in 1..Len(records) : records[i].id = records[k].id => i = k

C24_IdsUnique == UniqueIds(processing_units) /\ UniqueIds(pipelines)

\* records_after is records with the one record of that id replaced by record
ReplacedInPlace(records, records_after, record) ==
    /\ Len(records_after) = Len(records)
    /\ \A i \in 1..Len(records) :
          records_after[i] = IF records[i].id = record.id THEN record ELSE records[i]

C24_SaveReplaces ==
    /\ \A unit \in StoreUnits :
          (/\ store_op' = StoreOp("save_processing_unit", unit.id, TRUE)
           /\ save_processing_unit(unit)
           /\ get_processing_unit(unit.id) # <<>>) =>
              ReplacedInPlace(processing_units, processing_units', unit)
    /\ \A p \in StorePipelines :
          (/\ store_op' = StoreOp("save_pipeline", p.id, TRUE)
           /\ save_pipeline(p)
           /\ get_pipeline(p.id) # <<>>) =>
              ReplacedInPlace(pipelines, pipelines', p)

C24_StoreIdsUnique == [](C24_IdsUnique) /\ [][C24_SaveReplaces]_vars

C24_Witness ==
    /\ store_op = StoreOp("save_pipeline", "p1", TRUE)
    /\ Len(pipelines) = 2
    /\ pipelines[1].id = "p1"
    /\ pipelines[1].unit_refs # <<>>
    /\ Len(processing_units) = 2

(***************************************************************************)
(* C25, as stated: after a save, get of the saved id returns the saved     *)
(* record; after a delete, get of the deleted id returns nothing; and an   *)
(* operation on another id changes nothing that get returns.               *)
(***************************************************************************)
\* the step saves or deletes the record of that kind and id
TouchesUnit(id) ==
    store_op'.id = id /\ store_op'.op \in {"save_processing_unit", "delete_processing_unit"}

TouchesPipeline(id) ==
    store_op'.id = id /\ store_op'.op \in {"save_pipeline", "delete_pipeline"}

C25_SavedIsReturned ==
    /\ \A unit \in StoreUnits :
          (store_op'.op = "save_processing_unit" /\ store_op'.id = unit.id
                /\ save_processing_unit(unit))
              => find_by_id(processing_units', unit.id) = <<unit>>
    /\ \A p \in StorePipelines :
          (store_op'.op = "save_pipeline" /\ store_op'.id = p.id /\ save_pipeline(p))
              => find_by_id(pipelines', p.id) = <<p>>
    /\ \A id \in StoreUnitIds :
          delete_processing_unit(id) => find_by_id(processing_units', id) = <<>>
    /\ \A id \in StorePipelineIds :
          delete_pipeline(id) => find_by_id(pipelines', id) = <<>>

C25_OthersUntouched ==
    /\ \A id \in StoreUnitIds :
          ~TouchesUnit(id) => find_by_id(processing_units', id) = get_processing_unit(id)
    /\ \A id \in StorePipelineIds :
          ~TouchesPipeline(id) => find_by_id(pipelines', id) = get_pipeline(id)

C25_RoundTripAsStated == [][C25_SavedIsReturned /\ C25_OthersUntouched]_vars

(***************************************************************************)
(* C25, amended: the same, except that delete_processing_unit(u) changes   *)
(* what get_pipeline returns for a stored pipeline by removing its         *)
(* references to u, and nothing else of it.                                *)
(***************************************************************************)
C25_OthersUntouchedButCascade ==
    /\ \A id \in StoreUnitIds :
          ~TouchesUnit(id) => find_by_id(processing_units', id) = get_processing_unit(id)
    /\ \A id \in StorePipelineIds :
          ~TouchesPipeline(id) =>
              IF store_op'.op = "delete_processing_unit" /\ get_pipeline(id) # <<>>
              THEN /\ find_by_id(pipelines', id) # <<>>
                   /\ find_by_id(pipelines', id)[1] =
                         [get_pipeline(id)[1] EXCEPT !.unit_refs =
                             SelectSeq(@, LAMBDA r : r.unit_id # store_op'.id)]
              ELSE find_by_id(pipelines', id) = get_pipeline(id)

C25_RoundTrip == [][C25_SavedIsReturned /\ C25_OthersUntouchedButCascade]_vars

C25_Witness ==
    /\ store_op = StoreOp("save_pipeline", "p2", TRUE)
    /\ Len(pipelines) = 2
    /\ pipelines[1].id = "p2"
    /\ pipelines[1].unit_refs = InterleavedRefs
    /\ pipelines[2].unit_refs
          = <<PipelineUnitReference("u2", FALSE), PipelineUnitReference("u1", TRUE)>>
    /\ get_pipeline("p2") = <<pipelines[1]>>

(***************************************************************************)
(* C26: delete_pipeline(id) sets last_used_pipeline to none when it was    *)
(* id and leaves it as it was otherwise; after the call it is not id.      *)
(***************************************************************************)
C26_DeleteClears ==
    \A id \in StorePipelineIds :
        delete_pipeline(id) =>
            /\ last_used_pipeline = id => last_used_pipeline' = None
            /\ last_used_pipeline # id => last_used_pipeline' = last_used_pipeline
            /\ last_used_pipeline' # id

C26_DeleteClearsLastUsed == [][C26_DeleteClears]_vars

C26_Witness ==
    /\ store_op = StoreOp("delete_pipeline", "p1", TRUE)
    /\ last_used_pipeline = None
    /\ Len(pipelines) = 1

(***************************************************************************)
(* C27: the logger never holds more than max_entries entries (1000 for a   *)
(* logger made by new()), and its entries are the most recent              *)
(* min(n, max_entries) of the n entries logged, in the order they were     *)
(* logged: on overflow it is the oldest entry that goes.                   *)
(***************************************************************************)
Min(a, b) == IF a < b THEN a ELSE b

MostRecent(history, k) == SubSeq(history, Len(history) - k + 1, Len(history))

C27_BoundedFifo ==
    /\ max_entries \in Capacities
    /\ DefaultCapacity = 1000
    /\ Len(entries) <= max_entries
    /\ Len(entries) = Min(Len(logged), max_entries)
    /\ entries = MostRecent(logged, Min(Len(logged), max_entries))

C27_Witness ==
    /\ max_entries = DefaultCapacity
    /\ Len(logged) = 1001
    /\ Len(entries) = 1000
    /\ entries[1] = LogEntryInfo(1)
    /\ entries[1000] = LogEntryInfo(1000)

(***************************************************************************)
(* C28: with a multi-key record-toggle sequence registered, check_events   *)
(* returns true only when the presses it has taken off the channel end     *)
(* with all the keys of the sequence in order; one key alone, or the keys  *)
(* out of order, report no toggle.                                         *)
(***************************************************************************)
SequenceIds(sequence) == [k \in 1..Len(sequence.keys) |-> [id |-> HotKeyId(sequence.keys[k])]]

EndsWith(queue, suffix) ==
    /\ Len(suffix) <= Len(queue)
    /\ SubSeq(queue, Len(queue) - Len(suffix) + 1, Len(queue)) = suffix

C28_TrueOnlyWhenCompleted ==
    (/\ record_sequence # <<>>
     /\ ~is_single(record_sequence[1])
     /\ toggled = "true")
        => EndsWith(consumed, SequenceIds(record_sequence[1]))

(***************************************************************************)
(* C31: in every analysis returned the regions are half-open ranges with   *)
(* start_frame < end_frame <= number of samples, and they ascend strictly: *)
(* each region ends below the start of the next, so no two overlap.        *)
(***************************************************************************)
C31_RegionsOrdered ==
    SilenceReturned =>
        LET regions == silenceOut[1].analysis.silence_regions IN
        /\ \A r \in 1..Len(regions) :
              /\ 0 <= regions[r].start_frame
              /\ regions[r].start_frame < regions[r].end_frame
              /\ regions[r].end_frame <= Len(audio.samples)
        /\ \A r \in 1..(Len(regions) - 1) :
              regions[r].end_frame < regions[r + 1].start_frame
        /\ \A q, r \in 1..Len(regions) :
              q # r => \/ regions[q].end_frame <= regions[r].start_frame
                       \/ regions[r].end_frame <= regions[q].start_frame

C31_Witness ==
    /\ SilenceReturned
    /\ Len(silenceOut[1].analysis.silence_regions) = 3
    /\ silenceOut[1].analysis.silence_regions[3].end_frame = Len(audio.samples)
    /\ audio.sample_rate = 10

(***************************************************************************)
(* C32: the output holds exactly the input samples that lie in no region,  *)
(* in their order and unaltered: its length is the input's less the        *)
(* lengths of the regions, every sample outside the regions is found at    *)
(* its place after the cut, and sample_rate and channels are the input's.  *)
(***************************************************************************)
\* the sample at index i, counted from 1, lies in a region
InRegion(regions, i) ==
    \E r \in 1..Len(regions) : regions[r].start_frame < i /\ i <= regions[r].end_frame

\* the number of samples removed before index i
RECURSIVE RemovedBefore(_, _, _)
RemovedBefore(regions, r, i) ==
    IF r > Len(regions) THEN 0
    ELSE (IF regions[r].end_frame < i
          THEN regions[r].end_frame - regions[r].start_frame ELSE 0)
         + RemovedBefore(regions, r + 1, i)

C32_OutputIsInputWithoutRegions ==
    SilenceReturned =>
        LET out == silenceOut[1].buffer
            regions == silenceOut[1].analysis.silence_regions
        IN  /\ out.sample_rate = audio.sample_rate
            /\ out.channels = audio.channels
            /\ Len(out.samples) = Len(audio.samples) - RegionsLength(regions, 1)
            /\ \A i \in 1..Len(audio.samples) :
                  ~InRegion(regions, i) =>
                      LET k == i - RemovedBefore(regions, 1, i)
                      IN  k \in 1..Len(out.samples) /\ out.samples[k] = audio.samples[i]

C32_Witness ==
    /\ SilenceReturned
    /\ audio.samples = <<50, 0, 1, 0, 0, 50>>
    /\ audio.sample_rate = 10
    /\ silenceOut[1].analysis.silence_regions = <<SilenceRegion(1, 2), SilenceRegion(3, 5)>>
    /\ silenceOut[1].buffer.samples = <<50, 1, 50>>

(***************************************************************************)
(* C38: for a buffer of more than one channel, made of whole frames, every *)
(* region removed starts and ends at a multiple of the channel count, at   *)
(* every sample rate.  The minimum duration is taken to be a whole number  *)
(* of windows, where the rounding of the division plays no part.           *)
(***************************************************************************)
C38_RegionsOnFrameBoundaries ==
    (/\ SilenceReturned
     /\ audio.channels > 1
     /\ remover.min_duration_ms % remover.window_size_ms = 0
     /\ Len(audio.samples) % audio.channels = 0)
        => \A r \in 1..Len(silenceOut[1].analysis.silence_regions) :
              LET region == silenceOut[1].analysis.silence_regions[r]
              IN  /\ region.start_frame % audio.channels = 0
                  /\ region.end_frame % audio.channels = 0

(***************************************************************************)
(* C33: the call of an optimizable batch of N Prompt units carries a       *)
(* system prompt that holds, after its heading, the system prompt of each  *)
(* unit once, in unit order, under the label "Step k: <name>"; and a user  *)
(* prompt that holds the template of each unit under the same label, the   *)
(* placeholder of step 1 replaced by the running text, the placeholder of  *)
(* each step k > 1 by the marker of the output of step k - 1, and that     *)
(* ends with the instruction to give only the output of the last step.     *)
(***************************************************************************)
RECURSIVE Flatten(_)
Flatten(parts) == IF parts = <<>> THEN <<>> ELSE Head(parts) \o Flatten(Tail(parts))

\* the template with each placeholder replaced by the tokens given
Substituted(template, tokens) ==
    Flatten([i \in 1..Len(template) |->
                IF template[i] = INPUT_PH THEN tokens ELSE <<template[i]>>])

PrecedingOutput(k) == <<"{STEP_", ToString(k - 1), "_OUTPUT}">>

ExpectedSystemPrompt(units) ==
    <<"You are executing a chained processing pipeline. Process each step sequentially, using the output from each step as input to the next.">>
    \o Flatten([k \in 1..Len(units) |->
                   <<"\n\n", "## Step ", ToString(k), ": ", units[k].name, "\n">>
                   \o units[k].system_prompt])

ExpectedUserPrompt(units, text) ==
    <<"Execute the following steps in order:">>
    \o Flatten([k \in 1..Len(units) |->
                   <<"\n\n", "### Step ", ToString(k), ": ", units[k].name, "\n">>
                   \o Substituted(units[k].user_prompt_template,
                                  IF k = 1 THEN text ELSE PrecedingOutput(k))])
    \o <<"\n\n", "Provide ONLY the final output from the last step.">>

C33_ChainedCall ==
    (pc = "exec" /\ InOptimized /\ pc' = "await") =>
        LET units == batches[batch_idx].units IN
        /\ \A k \in 1..Len(units) : units[k].type = "Prompt"
        /\ inflight'[1].system_prompt = ExpectedSystemPrompt(units)
        /\ inflight'[1].user_prompt = ExpectedUserPrompt(units, current_text)

C33_ChainedPrompt == [][C33_ChainedCall]_vars

C33_Witness ==
    /\ pc = "await"
    /\ InOptimized
    /\ Len(batches[batch_idx].units) = 2
    /\ batches[batch_idx].units[2] = P2
    /\ current_text # input
    /\ current_text # <<>>
    /\ inflight[1].user_prompt = ExpectedUserPrompt(batches[batch_idx].units, current_text)

(***************************************************************************)
(* C34: within a run at most one completion call is in flight: a call is   *)
(* in flight exactly while the run awaits it, every call but the one in    *)
(* flight has been answered, a call is issued only when none is in flight, *)
(* and the step that receives a response stores it as the running text.    *)
(***************************************************************************)
Answers == SelectSeq(events, LAMBDA e : e.ev = "response" \/ CallFailure(e))

C34_OneInFlight ==
    /\ Len(inflight) <= 1
    /\ inflight # <<>> <=> pc = "await"
    /\ Len(Calls) = Len(Answers) + Len(inflight)
    /\ \A i, j \in 1..Len(events) :
          (i < j /\ events[i].ev = "call" /\ events[j].ev = "call") =>
              \E k \in (i + 1)..(j - 1) : events[k].ev = "response"

C34_IssueAndReceive ==
    /\ Len(EventsOf({"call"})') > Len(Calls) => inflight = <<>> /\ pc = "exec"
    /\ Len(EventsOf({"response"})') > Len(EventsOf({"response"})) =>
          /\ pc = "await"
          /\ inflight' = <<>>
          /\ current_text' = events'[Len(events')].text

C34_NoParallelCalls == [](C34_OneInFlight) /\ [][C34_IssueAndReceive]_vars

C34_Witness ==
    /\ pc = "await"
    /\ Len(Calls) = 3
    /\ Len(EventsOf({"response"})) = 2
    /\ current_text = events[Len(events) - 1].text
    /\ current_text # input

(***************************************************************************)
(* C40: every batch the planner marks optimizable has its provider and its *)
(* model set and holds Prompt units only, each of the batch's provider and *)
(* model; so the chained prompt has a step for every unit of the batch.    *)
(***************************************************************************)
C40_OptimizableBatchesKeyed ==
    planPc = "planned" =>
        \A b \in 1..Len(planOut) :
            planOut[b].optimizable =>
                /\ planOut[b].provider # None
                /\ planOut[b].model # None
                /\ planOut[b].units # <<>>
                /\ \A i \in 1..Len(planOut[b].units) :
                      /\ planOut[b].units[i].type = "Prompt"
                      /\ planOut[b].units[i].model = planOut[b].model
                      /\ planOut[b].units[i].provider = planOut[b].provider
                /\ PromptIndexes(planOut[b].units)
                      = [i \in 1..Len(planOut[b].units) |-> i - 1]

C40_Witness ==
    /\ planPc = "planned"
    /\ Len(planOut) = 3
    /\ planOut[1].optimizable /\ Len(planOut[1].units) = 2
    /\ ~planOut[2].optimizable
    /\ planOut[3].optimizable /\ planOut[3].model = "gpt-3.5"


(***************************************************************************)
(* C35: when a call of stop_recording has returned, the recorder is not in *)
(* the Processing state: after a success its state is Idle, and after a    *)
(* failure its state is the one it had before the call (so that a          *)
(* stop_recording on an Idle recorder leaves it Idle).                     *)
(***************************************************************************)
C35_StopNeverLeavesProcessing ==
    recorder_op.op = "stop_recording" =>
        /\ state.tag # "Processing"
        /\ recorder_op.result = "Ok" => state.tag = "Idle"
        /\ recorder_op.result # "Ok" => state.tag = recorder_op.before


(***************************************************************************)
(* C36: whenever a transcription task is running (spawned, and its         *)
(* TranscriptionComplete or Error not yet sent), is_transcribing is true:  *)
(* no other message clears the flag while the task runs.                   *)
(***************************************************************************)
Running == {id \in 1..Len(tasks) : tasks[id].pc # "done"}

C36_TranscribingWhileTaskRuns == Running # {} => is_transcribing


(***************************************************************************)
(* C37: every transcription task that was spawned comes to its end having  *)
(* sent exactly one terminal message (TranscriptionComplete or Error),     *)
(* never more than one on the way, and that message is processed; a frame  *)
(* that processes a terminal message and spawns no task leaves             *)
(* is_transcribing false; so, with tasks that take their steps and frames  *)
(* that go on, is_transcribing does not stay true forever.                 *)
(***************************************************************************)
Spawned(id) == id <= Len(tasks)

Answered(id) ==
    /\ Spawned(id)
    /\ tasks[id].pc = "done"
    /\ tasks[id].terminal = 1
    /\ id \notin unanswered

C37_OneTerminalMessage ==
    \A id \in 1..Len(tasks) :
        /\ tasks[id].terminal <= 1
        /\ tasks[id].pc = "done" <=> tasks[id].terminal = 1
        /\ tasks[id].pc # "done" => id \in unanswered

C37_ProcessingClearsFlag ==
    (unanswered' # unanswered /\ unanswered' \subseteq unanswered /\ tasks' = tasks)
        => ~is_transcribing'

AllAnswered == \A id \in 1..Len(tasks) : Answered(id)

C39_CompressedFileRemoved ==
    (call.pc = "returned" /\ call.created # <<>>) => call.created[1] \notin temp_dir


============================================================================
